---- MODULE Spec2Model ----
(***************************************************************************)
(* Settlement core of the perpetuals program: oracle price resolution      *)
(* (state/oracle.rs) and the Liquidate / RemoveCollateral instruction      *)
(* handlers (instructions/liquidate.rs, instructions/remove_collateral.rs).*)
(*                                                                         *)
(* Numbers.  The model checker's integers are 32 bits wide, so the         *)
(* program's u64 is modelled by the range 0..U64_MAX with U64_MAX just     *)
(* below 2^31, and the u128 intermediates of the source (which cannot      *)
(* overflow for u64 operands) are plain integers.  Inputs are chosen so    *)
(* that no intermediate leaves the checker's range.                        *)
(*                                                                         *)
(* Results.  A fallible Rust value Result<T> is the record                 *)
(* [err |-> "Ok", v |-> t] or [err |-> <error name>, v |-> 0].             *)
(***************************************************************************)
EXTENDS Integers, Sequences, FiniteSets, TLC

\* ------------------------------------------------------------------ bounds
\* Largest value of the modelled u64 word.
U64_MAX == 2147483645
\* The clock reading returned by perpetuals.get_time() during a run.
CurTime == 10
\* The max_price_age_sec every modelled custody is configured with.
MaxAge == 5
\* Successful calls per run.
MaxOps == 3

\* --------------------------------------------------------------- constants
\* oracle.rs line 9 / 10 / 11.  ORACLE_MAX_PRICE is (1 << 28) - 1.
ORACLE_EXPONENT_SCALE == -9
ORACLE_PRICE_SCALE == 1000000000
ORACLE_MAX_PRICE == 268435455
\* Perpetuals::BPS_POWER, USD_DECIMALS, PRICE_DECIMALS live in
\* state/perpetuals.rs.  BPS_POWER is 10^4 (basis points).  The USD and price
\* scales are taken with two decimals so that whole amounts stay inside the
\* checker's integer range; every conversion below is written for an
\* arbitrary scale.
BPS_POWER == 10000
USD_DECIMALS == 2
PRICE_DECIMALS == 2

\* ------------------------------------------------------------- Result<T>
Ok(x) == [err |-> "Ok", v |-> x]
Err(e) == [err |-> e, v |-> 0]
IsOk(r) == r.err = "Ok"

\* ------------------------------------------------------ math (checked ops)
checked_add(a, b) == IF a <= U64_MAX - b THEN Ok(a + b) ELSE Err("MathOverflow")
checked_sub(a, b) == IF a >= b THEN Ok(a - b) ELSE Err("MathOverflow")
checked_mul(a, b) ==
    IF a = 0 \/ b = 0 THEN Ok(0)
    ELSE IF a <= U64_MAX \div b THEN Ok(a * b) ELSE Err("MathOverflow")
checked_div(a, b) == IF b = 0 THEN Err("MathOverflow") ELSE Ok(a \div b)
\* checked_pow(10, n as usize): a negative n cast to usize is huge, and the
\* repeated multiplication overflows.
RECURSIVE checked_pow10(_)
checked_pow10(n) ==
    IF n < 0 THEN Err("MathOverflow")
    ELSE IF n = 0 THEN Ok(1)
    ELSE LET r == checked_pow10(n - 1)
         IN IF IsOk(r) THEN checked_mul(r.v, 10) ELSE r
checked_as_u64(x) == IF x >= 0 /\ x <= U64_MAX THEN Ok(x) ELSE Err("MathOverflow")
wrapping_add(a, b) == IF a <= U64_MAX - b THEN a + b ELSE a - (U64_MAX - b) - 1
saturating_sub(a, b) == IF a >= b THEN a - b ELSE 0

\* ------------------------------------------------------------ oracle.rs
\* OracleType (oracle.rs 14-18) is one of "None", "Custom", "Pyth".
\* OracleParams (oracle.rs 33-40), without the two account keys.
OracleParams(type, thr, maxerr, age) ==
    [oracle_type |-> type, max_difference_threshold |-> thr,
     max_price_error |-> maxerr, max_price_age_sec |-> age]

OraclePrice(p, e) == [price |-> p, exponent |-> e]

\* A Pyth price account as the program reads it: readable is FALSE for an
\* empty or malformed account; price and ema_price are i64; conf is u64.
PythFeed(readable, p, conf, e, t, ema) ==
    [readable |-> readable, price |-> p, conf |-> conf, expo |-> e,
     publish_time |-> t, ema_price |-> ema]

\* get_pyth_price with the staleness test written >= instead of >.
get_pyth_price_stale_at_limit(feed, max_price_age_sec, current_time, use_ema) ==
    IF ~feed.readable THEN Err("InvalidOracleAccount")
    ELSE LET pyth_price == IF use_ema THEN feed.ema_price ELSE feed.price
             last_update_age_sec == current_time - feed.publish_time
             is_price_stale == last_update_age_sec >= max_price_age_sec
         IN IF pyth_price <= 0 THEN Err("InvalidOraclePrice")
            ELSE Ok([price |-> pyth_price, conf |-> feed.conf,
                     expo |-> feed.expo, stale |-> is_price_stale])

\* OraclePrice::get_pyth_price (oracle.rs 401-443).
get_pyth_price(feed, max_price_age_sec, current_time, use_ema) ==
    IF ~feed.readable THEN Err("InvalidOracleAccount")
    ELSE LET pyth_price == IF use_ema THEN feed.ema_price ELSE feed.price
             last_update_age_sec == current_time - feed.publish_time
             is_price_stale == last_update_age_sec > max_price_age_sec
         IN IF pyth_price <= 0 THEN Err("InvalidOraclePrice")
            ELSE Ok([price |-> pyth_price, conf |-> feed.conf,
                     expo |-> feed.expo, stale |-> is_price_stale])

\* OraclePrice::get_price_diff (oracle.rs 193-212).  Both arms of the source
\* subtract price2 from price1 and divide by price1.
get_price_diff(price1, price2) ==
    IF price1 > price2
    THEN LET d == checked_sub(price1, price2)
         IN IF ~IsOk(d) THEN d
            ELSE LET q == checked_div(d.v * BPS_POWER, price1)
                 IN IF IsOk(q) THEN checked_as_u64(q.v) ELSE q
    ELSE LET d == checked_sub(price1, price2)
         IN IF ~IsOk(d) THEN d
            ELSE LET q == checked_div(d.v * BPS_POWER, price1)
                 IN IF IsOk(q) THEN checked_as_u64(q.v) ELSE q

\* The (min_price, max_price, close_only) triple new_from_oracle returns.
Band(lo, hi, e, close_only) ==
    Ok([min |-> OraclePrice(lo, e), max |-> OraclePrice(hi, e),
        close_only |-> close_only])

\* The two identical arms oracle.rs 154-157 and 167-170.
ConfBand(curr_price, curr_conf, curr_expo, close_only) ==
    LET lo == checked_sub(curr_price, curr_conf)
        hi == checked_add(curr_price, curr_conf)
    IN IF ~IsOk(lo) THEN lo
       ELSE IF ~IsOk(hi) THEN hi
       ELSE Band(lo.v, hi.v, curr_expo, close_only)

\* OraclePrice::new_from_oracle (oracle.rs 88-191).
new_from_oracle(feed, oracle_params, current_time, is_stable) ==
    LET curr == get_pyth_price(feed, oracle_params.max_price_age_sec,
                               current_time, FALSE)
    IN IF ~IsOk(curr) THEN curr
       ELSE LET curr_price == curr.v.price
                curr_conf == curr.v.conf
                curr_expo == curr.v.expo
            IN IF curr.v.stale
               THEN \* oracle.rs 175-186: both arms fail.
                    Err("InvalidOraclePrice")
               ELSE IF is_stable
               THEN LET one_usd == checked_pow10(-curr_expo)
                        perc_diff == get_price_diff(one_usd.v, curr_price)
                    IN IF ~IsOk(one_usd) THEN one_usd
                       ELSE IF ~IsOk(perc_diff) THEN perc_diff
                       ELSE IF perc_diff.v < oracle_params.max_difference_threshold
                       THEN Band(curr_price, curr_price, curr_expo, FALSE)
                       ELSE IF curr_price < one_usd.v
                       THEN Band(curr_price, one_usd.v, curr_expo, FALSE)
                       ELSE Band(one_usd.v, curr_price, curr_expo, FALSE)
               ELSE LET ema == get_pyth_price(feed, oracle_params.max_price_age_sec,
                                              current_time, TRUE)
                        perc_diff == get_price_diff(curr_price, ema.v.price)
                    IN IF ~IsOk(ema) THEN ema
                       ELSE IF ~IsOk(perc_diff) THEN perc_diff
                       ELSE IF perc_diff.v < oracle_params.max_difference_threshold
                       THEN Band(curr_price, curr_price, curr_expo, FALSE)
                       ELSE IF (curr_conf * BPS_POWER) \div curr_price
                                  < oracle_params.max_price_error
                       THEN ConfBand(curr_price, curr_conf, curr_expo, FALSE)
                       ELSE IF oracle_params.oracle_type = "Custom"
                       THEN Err("InvalidOraclePrice")
                       ELSE ConfBand(curr_price, curr_conf, curr_expo, TRUE)

\* scale_to_exponent whose division rounds up instead of down.
scale_to_exponent_rounds_up(self, target_exponent) ==
    IF target_exponent = self.exponent THEN Ok(self)
    ELSE LET delta == target_exponent - self.exponent
         IN IF delta > 0
            THEN LET p == checked_pow10(delta)
                     q == checked_div(self.price, p.v)
                     up == IF self.price % p.v = 0 THEN 0 ELSE 1
                 IN IF ~IsOk(p) THEN p
                    ELSE IF ~IsOk(q) THEN q
                    ELSE Ok(OraclePrice(q.v + up, target_exponent))
            ELSE LET p == checked_pow10(-delta)
                     q == checked_mul(self.price, p.v)
                 IN IF ~IsOk(p) THEN p
                    ELSE IF ~IsOk(q) THEN q
                    ELSE Ok(OraclePrice(q.v, target_exponent))

\* OraclePrice::scale_to_exponent (oracle.rs 306-322).
scale_to_exponent(self, target_exponent) ==
    IF target_exponent = self.exponent THEN Ok(self)
    ELSE LET delta == target_exponent - self.exponent
         IN IF delta > 0
            THEN LET p == checked_pow10(delta)
                     q == checked_div(self.price, p.v)
                 IN IF ~IsOk(p) THEN p
                    ELSE IF ~IsOk(q) THEN q
                    ELSE Ok(OraclePrice(q.v, target_exponent))
            ELSE LET p == checked_pow10(-delta)
                     q == checked_mul(self.price, p.v)
                 IN IF ~IsOk(p) THEN p
                    ELSE IF ~IsOk(q) THEN q
                    ELSE Ok(OraclePrice(q.v, target_exponent))

\* ----------------------------------------------- decimal conversions
\* floor(n * 10^k / d) for d > 0, k >= 0, by long division, so that no
\* intermediate exceeds the quotient; fails when the quotient leaves u64.
RECURSIVE LongDiv(_, _, _, _)
LongDiv(q, r, k, d) ==
    IF k = 0 THEN Ok(q)
    ELSE LET digit == (r * 10) \div d
             q10 == checked_mul(q, 10)
         IN IF ~IsOk(q10) THEN q10
            ELSE IF q10.v > U64_MAX - digit THEN Err("MathOverflow")
            ELSE LongDiv(q10.v + digit, (r * 10) % d, k - 1, d)

DivPow10(n, k, d) == LongDiv(n \div d, n % d, k, d)

\* floor(x / 10^n) and checked x * 10^n, one digit at a time.
RECURSIVE ShiftDown(_, _)
ShiftDown(x, n) == IF n <= 0 \/ x = 0 THEN x ELSE ShiftDown(x \div 10, n - 1)
RECURSIVE ShiftUp(_, _)
ShiftUp(x, n) ==
    IF n <= 0 THEN checked_as_u64(x)
    ELSE LET x10 == checked_mul(x, 10)
         IN IF IsOk(x10) THEN ShiftUp(x10.v, n - 1) ELSE x10

\* math::checked_decimal_div(c1, e1, c2, e2, target): c1*10^e1 / (c2*10^e2)
\* expressed at exponent target, truncated.
checked_decimal_div(c1, e1, c2, e2, target_exponent) ==
    IF c2 = 0 THEN Err("MathOverflow")
    ELSE IF c1 = 0 THEN Ok(0)
    ELSE LET k == e1 - e2 - target_exponent
         IN IF k >= 0 THEN DivPow10(c1, k, c2)
            ELSE Ok(ShiftDown(c1 \div c2, -k))

\* math::checked_decimal_mul(c1, e1, c2, e2, target): c1*10^e1 * c2*10^e2
\* expressed at exponent target, truncated.
checked_decimal_mul(c1, e1, c2, e2, target_exponent) ==
    IF c1 = 0 \/ c2 = 0 THEN Ok(0)
    ELSE LET k == e1 + e2 - target_exponent
             prod == c1 * c2
         IN IF k >= 0 THEN ShiftUp(prod, k)
            ELSE checked_as_u64(ShiftDown(prod, -k))

\* OraclePrice::get_asset_amount_usd (oracle.rs 240-251).
get_asset_amount_usd(self, token_amount, token_decimals) ==
    IF token_amount = 0 \/ self.price = 0 THEN Ok(0)
    ELSE checked_decimal_mul(token_amount, -token_decimals, self.price,
                             self.exponent, -USD_DECIMALS)

\* OraclePrice::get_token_amount (oracle.rs 254-265).
get_token_amount(self, asset_amount_usd, token_decimals) ==
    IF asset_amount_usd = 0 \/ self.price = 0 THEN Ok(0)
    ELSE checked_decimal_div(asset_amount_usd, -USD_DECIMALS, self.price,
                             self.exponent, -token_decimals)

\* ------------------------------------------------- Pool, Custody, token CPI
\* Pool::get_fee_amount(fee, amount): amount * fee / BPS_POWER, rounded up.
\* The product is split so that it stays inside the checker's range.
get_fee_amount(fee, amount) ==
    IF fee = 0 \/ amount = 0 THEN Ok(0)
    ELSE LET whole == checked_mul(amount \div BPS_POWER, fee)
             part == ((amount % BPS_POWER) * fee + BPS_POWER - 1) \div BPS_POWER
         IN IF IsOk(whole) THEN checked_add(whole.v, part) ELSE whole

\* Pool::get_collateral_fee(collateral_usd, collateral_custody): the custody's
\* collateral-removal rate applied to the requested USD amount.
get_collateral_fee(collateral_usd, collateral_custody) ==
    get_fee_amount(collateral_custody.fees.remove_collateral, collateral_usd)

\* Pool::check_available_amount(amount, custody): the custody's tokens that
\* are not locked by open positions cover the amount.
check_available_amount(amount, c) ==
    LET total == checked_add(c.assets.owned, c.assets.collateral)
    IN IF ~IsOk(total) THEN total
       ELSE LET available == checked_sub(total.v, c.assets.locked)
            IN IF IsOk(available) THEN Ok(available.v >= amount) ELSE available

\* Custody::unlock_funds(amount): release locked capacity, never below zero.
unlock_funds(c, amount) ==
    [c EXCEPT !.assets.locked = saturating_sub(c.assets.locked, amount)]

\* Perpetuals::transfer_tokens(from, to, authority, token_program, amount):
\* an SPL-token transfer out of the custody token account.
transfer_tokens(accounts, to, amount) ==
    IF accounts.custody_token_account < amount THEN Err("TokenInsufficientFunds")
    ELSE IF accounts[to] > U64_MAX - amount THEN Err("TokenOverflow")
    ELSE Ok([accounts EXCEPT !.custody_token_account = @ - amount,
                             ![to] = @ + amount])

\* ------------------------------------------------------- handler results
\* What a handler call leaves behind: its error code, the in-memory records
\* and token balances at the moment it returned, and the values it computed.
NoBand == [min |-> OraclePrice(0, 0), max |-> OraclePrice(0, 0), close_only |-> FALSE]
Info0 ==
    [oracle_reads |-> 0, token |-> NoBand, collateral_token |-> NoBand,
     leverage_checked |-> FALSE, checked_collateral_usd |-> 0,
     checked_collateral_amount |-> 0, capacity_checked |-> FALSE,
     locked_at_capacity_check |-> 0,
     transfer_issued |-> FALSE, transfer_to |-> "none", transfer_amount |-> 0,
     fee_amount_usd |-> 0, fee_amount |-> 0, collateral |-> 0,
     total_amount_out |-> 0, reward_usd |-> 0, reward |-> 0,
     remaining_amount |-> 0, protocol_fee |-> 0, protocol_fee_paid |-> FALSE,
     size |-> 0]
Ret(e, st, info) == [err |-> e, st |-> st, info |-> info]

\* ------------------------------------------------------------ liquidate.rs
\* A call's environment env holds what the handler reads from outside the
\* records: the clock, the two oracle accounts, and the Pool's answers
\* (check_leverage as leverage_ok, get_close_amount as close).

\* liquidate_stats failing when the rolling loss counter would overflow.
liquidate_stats_checked_loss(m, env, info) ==
    LET custody == m.custody
        cc == m.collateral_custody
        position == m.position
        position_oracle_price == OraclePrice(position.price, -PRICE_DECIMALS)
        size == get_token_amount(position_oracle_price, position.size_usd,
                                 custody.decimals)
        i == [info EXCEPT !.size = size.v]
    IN IF ~IsOk(size) THEN Ret(size.err, m, info)
       ELSE IF position.side = "Long" /\ ~custody.is_virtual
       THEN LET vol == checked_add(cc.volume_stats.liquidation_usd, position.size_usd)
                cc2 == [cc EXCEPT
                          !.volume_stats.liquidation_usd = vol.v,
                          !.trade_stats.oi_long =
                              IF position.side = "Long"
                              THEN saturating_sub(@, size.v) ELSE @,
                          !.trade_stats.oi_short =
                              IF position.side = "Long"
                              THEN @ ELSE saturating_sub(@, size.v),
                          !.trade_stats.profit_usd = wrapping_add(@, env.close.profit_usd),
                          !.trade_stats.loss_usd = wrapping_add(@, env.close.loss_usd)]
            IN IF ~IsOk(vol) THEN Ret(vol.err, m, i)
               ELSE IF ~IsOk(checked_add(m.custody.trade_stats.loss_usd,
                                         env.close.loss_usd))
               THEN Ret("MathOverflow", m, i)
               ELSE Ret("Ok", [m EXCEPT !.collateral_custody = cc2,
                                        !.custody = cc2], i)
       ELSE LET vol == checked_add(custody.volume_stats.liquidation_usd, position.size_usd)
                c2 == [custody EXCEPT
                          !.volume_stats.liquidation_usd = vol.v,
                          !.trade_stats.oi_long =
                              IF position.side = "Long"
                              THEN saturating_sub(@, size.v) ELSE @,
                          !.trade_stats.oi_short =
                              IF position.side = "Long"
                              THEN @ ELSE saturating_sub(@, size.v),
                          !.trade_stats.profit_usd = wrapping_add(@, env.close.profit_usd),
                          !.trade_stats.loss_usd = wrapping_add(@, env.close.loss_usd)]
            IN IF ~IsOk(vol) THEN Ret(vol.err, m, i)
               ELSE IF ~IsOk(checked_add(m.custody.trade_stats.loss_usd,
                                         env.close.loss_usd))
               THEN Ret("MathOverflow", m, i)
               ELSE Ret("Ok", [m EXCEPT !.custody = c2], i)

\* liquidate.rs 265-324: position size, statistics, same-custody sync.
\* m is the in-memory state after the balance updates.
liquidate_stats(m, env, info) ==
    LET custody == m.custody
        cc == m.collateral_custody
        position == m.position
        position_oracle_price == OraclePrice(position.price, -PRICE_DECIMALS)
        size == get_token_amount(position_oracle_price, position.size_usd,
                                 custody.decimals)
        i == [info EXCEPT !.size = size.v]
    IN IF ~IsOk(size) THEN Ret(size.err, m, info)
       ELSE IF position.side = "Long" /\ ~custody.is_virtual
       THEN LET vol == checked_add(cc.volume_stats.liquidation_usd, position.size_usd)
                cc2 == [cc EXCEPT
                          !.volume_stats.liquidation_usd = vol.v,
                          !.trade_stats.oi_long =
                              IF position.side = "Long"
                              THEN saturating_sub(@, size.v) ELSE @,
                          !.trade_stats.oi_short =
                              IF position.side = "Long"
                              THEN @ ELSE saturating_sub(@, size.v),
                          !.trade_stats.profit_usd = wrapping_add(@, env.close.profit_usd),
                          !.trade_stats.loss_usd = wrapping_add(@, env.close.loss_usd)]
            IN IF ~IsOk(vol) THEN Ret(vol.err, m, i)
               ELSE Ret("Ok", [m EXCEPT !.collateral_custody = cc2,
                                        !.custody = cc2], i)
       ELSE LET vol == checked_add(custody.volume_stats.liquidation_usd, position.size_usd)
                c2 == [custody EXCEPT
                          !.volume_stats.liquidation_usd = vol.v,
                          !.trade_stats.oi_long =
                              IF position.side = "Long"
                              THEN saturating_sub(@, size.v) ELSE @,
                          !.trade_stats.oi_short =
                              IF position.side = "Long"
                              THEN @ ELSE saturating_sub(@, size.v),
                          !.trade_stats.profit_usd = wrapping_add(@, env.close.profit_usd),
                          !.trade_stats.loss_usd = wrapping_add(@, env.close.loss_usd)]
            IN IF ~IsOk(vol) THEN Ret(vol.err, m, i)
               ELSE Ret("Ok", [m EXCEPT !.custody = c2], i)

\* liquidate.rs 254-263: the protocol share of the fee, paid if capacity allows.
liquidate_protocol_fee(m, env, info) ==
    LET cc == m.collateral_custody
        protocol_fee == get_fee_amount(m.custody.fees.protocol_share, info.fee_amount)
        fits == check_available_amount(protocol_fee.v, cc)
        paid == checked_add(cc.assets.protocol_fees, protocol_fee.v)
        owned == checked_sub(cc.assets.owned, protocol_fee.v)
        i == [info EXCEPT !.protocol_fee = protocol_fee.v]
    IN IF ~IsOk(protocol_fee) THEN Ret(protocol_fee.err, m, info)
       ELSE IF ~IsOk(fits) THEN Ret(fits.err, m, i)
       ELSE IF ~fits.v THEN liquidate_stats(m, env, i)
       ELSE IF ~IsOk(paid) THEN Ret(paid.err, m, i)
       ELSE IF ~IsOk(owned)
       THEN Ret(owned.err,
                [m EXCEPT !.collateral_custody.assets.protocol_fees = paid.v], i)
       ELSE liquidate_stats(
                [m EXCEPT !.collateral_custody.assets.protocol_fees = paid.v,
                          !.collateral_custody.assets.owned = owned.v],
                env, [i EXCEPT !.protocol_fee_paid = TRUE])

\* liquidate_apply transferring the whole settlement amount, not the reward.
liquidate_apply_transfers_total(st, env, info) ==
    LET position == st.position
        total_amount_out == info.total_amount_out
        cc1 == unlock_funds(st.collateral_custody, position.locked_amount)
        m1 == [st EXCEPT !.collateral_custody = cc1]
        fits == check_available_amount(total_amount_out, cc1)
        i1 == [info EXCEPT !.capacity_checked = TRUE,
                           !.locked_at_capacity_check = cc1.assets.locked]
        moved == transfer_tokens(st.accounts, "rewards_receiving_account",
                                 total_amount_out)
        i2 == [i1 EXCEPT !.transfer_issued = TRUE,
                         !.transfer_to = "rewards_receiving_account",
                         !.transfer_amount = total_amount_out]
        m2 == [m1 EXCEPT !.accounts = moved.v,
                         !.collateral_custody.collected_fees.liquidation_usd =
                             wrapping_add(@, info.fee_amount_usd)]
        owned == IF total_amount_out > position.collateral_amount
                 THEN checked_sub(cc1.assets.owned,
                          saturating_sub(total_amount_out, position.collateral_amount))
                 ELSE checked_add(cc1.assets.owned,
                          saturating_sub(position.collateral_amount, total_amount_out))
        m3 == [m2 EXCEPT !.collateral_custody.assets.owned = owned.v]
        collateral == checked_sub(cc1.assets.collateral, position.collateral_amount)
        m4 == [m3 EXCEPT !.collateral_custody.assets.collateral = collateral.v]
    IN IF ~IsOk(fits) THEN Ret(fits.err, m1, info)
       ELSE IF ~fits.v THEN Ret("CustodyAmountLimit", m1, i1)
       ELSE IF ~IsOk(moved) THEN Ret(moved.err, m1, i2)
       ELSE IF ~IsOk(owned) THEN Ret(owned.err, m2, i2)
       ELSE IF ~IsOk(collateral) THEN Ret(collateral.err, m3, i2)
       ELSE liquidate_protocol_fee(m4, env, i2)

\* liquidate_apply checking the capacity before the unlock.
liquidate_apply_checks_before_unlock(st, env, info) ==
    LET position == st.position
        total_amount_out == info.total_amount_out
        cc1 == unlock_funds(st.collateral_custody, position.locked_amount)
        m1 == [st EXCEPT !.collateral_custody = cc1]
        fits == check_available_amount(total_amount_out, st.collateral_custody)
        i1 == [info EXCEPT !.capacity_checked = TRUE,
                           !.locked_at_capacity_check =
                               st.collateral_custody.assets.locked]
        moved == transfer_tokens(st.accounts, "rewards_receiving_account", info.reward)
        i2 == [i1 EXCEPT !.transfer_issued = TRUE,
                         !.transfer_to = "rewards_receiving_account",
                         !.transfer_amount = info.reward]
        m2 == [m1 EXCEPT !.accounts = moved.v,
                         !.collateral_custody.collected_fees.liquidation_usd =
                             wrapping_add(@, info.fee_amount_usd)]
        owned == IF total_amount_out > position.collateral_amount
                 THEN checked_sub(cc1.assets.owned,
                          saturating_sub(total_amount_out, position.collateral_amount))
                 ELSE checked_add(cc1.assets.owned,
                          saturating_sub(position.collateral_amount, total_amount_out))
        m3 == [m2 EXCEPT !.collateral_custody.assets.owned = owned.v]
        collateral == checked_sub(cc1.assets.collateral, position.collateral_amount)
        m4 == [m3 EXCEPT !.collateral_custody.assets.collateral = collateral.v]
    IN IF ~IsOk(fits) THEN Ret(fits.err, m1, info)
       ELSE IF ~fits.v THEN Ret("CustodyAmountLimit", m1, i1)
       ELSE IF ~IsOk(moved) THEN Ret(moved.err, m1, i2)
       ELSE IF ~IsOk(owned) THEN Ret(owned.err, m2, i2)
       ELSE IF ~IsOk(collateral) THEN Ret(collateral.err, m3, i2)
       ELSE liquidate_protocol_fee(m4, env, i2)

\* liquidate_apply clamping the owned balance at zero instead of failing.
liquidate_apply_clamps_owned(st, env, info) ==
    LET position == st.position
        total_amount_out == info.total_amount_out
        cc1 == unlock_funds(st.collateral_custody, position.locked_amount)
        m1 == [st EXCEPT !.collateral_custody = cc1]
        fits == check_available_amount(total_amount_out, cc1)
        i1 == [info EXCEPT !.capacity_checked = TRUE,
                           !.locked_at_capacity_check = cc1.assets.locked]
        moved == transfer_tokens(st.accounts, "rewards_receiving_account", info.reward)
        i2 == [i1 EXCEPT !.transfer_issued = TRUE,
                         !.transfer_to = "rewards_receiving_account",
                         !.transfer_amount = info.reward]
        m2 == [m1 EXCEPT !.accounts = moved.v,
                         !.collateral_custody.collected_fees.liquidation_usd =
                             wrapping_add(@, info.fee_amount_usd)]
        owned == IF total_amount_out > position.collateral_amount
                 THEN Ok(saturating_sub(cc1.assets.owned,
                          saturating_sub(total_amount_out, position.collateral_amount)))
                 ELSE checked_add(cc1.assets.owned,
                          saturating_sub(position.collateral_amount, total_amount_out))
        m3 == [m2 EXCEPT !.collateral_custody.assets.owned = owned.v]
        collateral == checked_sub(cc1.assets.collateral, position.collateral_amount)
        m4 == [m3 EXCEPT !.collateral_custody.assets.collateral = collateral.v]
    IN IF ~IsOk(fits) THEN Ret(fits.err, m1, info)
       ELSE IF ~fits.v THEN Ret("CustodyAmountLimit", m1, i1)
       ELSE IF ~IsOk(moved) THEN Ret(moved.err, m1, i2)
       ELSE IF ~IsOk(owned) THEN Ret(owned.err, m2, i2)
       ELSE IF ~IsOk(collateral) THEN Ret(collateral.err, m3, i2)
       ELSE liquidate_protocol_fee(m4, env, i2)

\* liquidate.rs 200-252: unlock, capacity check, reward transfer, balances.
liquidate_apply(st, env, info) ==
    LET position == st.position
        total_amount_out == info.total_amount_out
        cc1 == unlock_funds(st.collateral_custody, position.locked_amount)
        m1 == [st EXCEPT !.collateral_custody = cc1]
        fits == check_available_amount(total_amount_out, cc1)
        i1 == [info EXCEPT !.capacity_checked = TRUE,
                           !.locked_at_capacity_check = cc1.assets.locked]
        moved == transfer_tokens(st.accounts, "rewards_receiving_account", info.reward)
        i2 == [i1 EXCEPT !.transfer_issued = TRUE,
                         !.transfer_to = "rewards_receiving_account",
                         !.transfer_amount = info.reward]
        m2 == [m1 EXCEPT !.accounts = moved.v,
                         !.collateral_custody.collected_fees.liquidation_usd =
                             wrapping_add(@, info.fee_amount_usd)]
        owned == IF total_amount_out > position.collateral_amount
                 THEN checked_sub(cc1.assets.owned,
                          saturating_sub(total_amount_out, position.collateral_amount))
                 ELSE checked_add(cc1.assets.owned,
                          saturating_sub(position.collateral_amount, total_amount_out))
        m3 == [m2 EXCEPT !.collateral_custody.assets.owned = owned.v]
        collateral == checked_sub(cc1.assets.collateral, position.collateral_amount)
        m4 == [m3 EXCEPT !.collateral_custody.assets.collateral = collateral.v]
    IN IF ~IsOk(fits) THEN Ret(fits.err, m1, info)
       ELSE IF ~fits.v THEN Ret("CustodyAmountLimit", m1, i1)
       ELSE IF ~IsOk(moved) THEN Ret(moved.err, m1, i2)
       ELSE IF ~IsOk(owned) THEN Ret(owned.err, m2, i2)
       ELSE IF ~IsOk(collateral) THEN Ret(collateral.err, m3, i2)
       ELSE liquidate_protocol_fee(m4, env, i2)

\* liquidate_settle with the leverage precondition (liquidate.rs 156-169)
\* left out.
liquidate_settle_any_leverage(st, env, token_min_price, token_max_price, collateral_token_min_price, collateral_token_max_price, info) ==
    LET custody == st.custody
        cc == st.collateral_custody
        position == st.position
        i0 == [info EXCEPT !.leverage_checked = TRUE,
                           !.checked_collateral_usd = position.collateral_usd,
                           !.checked_collateral_amount = position.collateral_amount]
        total_amount_out == env.close.total_amount_out
        fee_amount_usd == get_asset_amount_usd(token_max_price, env.close.fee_amount,
                                               custody.decimals)
        fee_amount == IF position.side = "Short" \/ custody.is_virtual
                      THEN get_token_amount(collateral_token_min_price,
                                            fee_amount_usd.v, cc.decimals)
                      ELSE Ok(env.close.fee_amount)
        reward_usd == get_fee_amount(custody.fees.liquidation, position.size_usd)
        reward == get_token_amount(collateral_token_max_price, reward_usd.v, cc.decimals)
        remaining_amount == checked_sub(total_amount_out, reward.v)
        i1 == [i0 EXCEPT !.total_amount_out = total_amount_out,
                         !.fee_amount_usd = fee_amount_usd.v,
                         !.fee_amount = fee_amount.v,
                         !.reward_usd = reward_usd.v, !.reward = reward.v]
    IN IF ~IsOk(fee_amount_usd) THEN Ret(fee_amount_usd.err, st, i0)
       ELSE IF ~IsOk(fee_amount) THEN Ret(fee_amount.err, st, i0)
       ELSE IF ~IsOk(reward_usd) THEN Ret(reward_usd.err, st, i0)
       ELSE IF ~IsOk(reward) THEN Ret(reward.err, st, i0)
       ELSE IF ~IsOk(remaining_amount) THEN Ret(remaining_amount.err, st, i1)
       ELSE liquidate_apply(st, env,
                [i1 EXCEPT !.remaining_amount = remaining_amount.v])

\* liquidate_settle with the residual amount stopping at zero instead of
\* failing when the reward exceeds the settlement amount.
liquidate_settle_clamps_remaining(st, env, token_min_price, token_max_price, collateral_token_min_price, collateral_token_max_price, info) ==
    LET custody == st.custody
        cc == st.collateral_custody
        position == st.position
        i0 == [info EXCEPT !.leverage_checked = TRUE,
                           !.checked_collateral_usd = position.collateral_usd,
                           !.checked_collateral_amount = position.collateral_amount]
        total_amount_out == env.close.total_amount_out
        fee_amount_usd == get_asset_amount_usd(token_max_price, env.close.fee_amount,
                                               custody.decimals)
        fee_amount == IF position.side = "Short" \/ custody.is_virtual
                      THEN get_token_amount(collateral_token_min_price,
                                            fee_amount_usd.v, cc.decimals)
                      ELSE Ok(env.close.fee_amount)
        reward_usd == get_fee_amount(custody.fees.liquidation, position.size_usd)
        reward == get_token_amount(collateral_token_max_price, reward_usd.v, cc.decimals)
        remaining_amount == Ok(saturating_sub(total_amount_out, reward.v))
    IN IF env.leverage_ok THEN Ret("InvalidPositionState", st, i0)
       ELSE IF ~IsOk(fee_amount_usd) THEN Ret(fee_amount_usd.err, st, i0)
       ELSE IF ~IsOk(fee_amount) THEN Ret(fee_amount.err, st, i0)
       ELSE IF ~IsOk(reward_usd) THEN Ret(reward_usd.err, st, i0)
       ELSE IF ~IsOk(reward) THEN Ret(reward.err, st, i0)
       ELSE IF ~IsOk(remaining_amount)
       THEN Ret(remaining_amount.err, st,
                [i0 EXCEPT !.total_amount_out = total_amount_out,
                           !.fee_amount_usd = fee_amount_usd.v,
                           !.fee_amount = fee_amount.v,
                           !.reward_usd = reward_usd.v, !.reward = reward.v])
       ELSE liquidate_apply(st, env,
                [i0 EXCEPT !.total_amount_out = total_amount_out,
                           !.fee_amount_usd = fee_amount_usd.v,
                           !.fee_amount = fee_amount.v,
                           !.reward_usd = reward_usd.v, !.reward = reward.v,
                           !.remaining_amount = remaining_amount.v])

\* liquidate.rs 156-198: leverage precondition, settlement amounts, reward.
\* Only the four prices of the two bands are passed on: the source discards
\* the close_only flag of both resolutions (liquidate.rs 138 and 146).
liquidate_settle(st, env, token_min_price, token_max_price, collateral_token_min_price, collateral_token_max_price, info) ==
    LET custody == st.custody
        cc == st.collateral_custody
        position == st.position
        i0 == [info EXCEPT !.leverage_checked = TRUE,
                           !.checked_collateral_usd = position.collateral_usd,
                           !.checked_collateral_amount = position.collateral_amount]
        total_amount_out == env.close.total_amount_out
        fee_amount_usd == get_asset_amount_usd(token_max_price, env.close.fee_amount,
                                               custody.decimals)
        fee_amount == IF position.side = "Short" \/ custody.is_virtual
                      THEN get_token_amount(collateral_token_min_price,
                                            fee_amount_usd.v, cc.decimals)
                      ELSE Ok(env.close.fee_amount)
        reward_usd == get_fee_amount(custody.fees.liquidation, position.size_usd)
        reward == get_token_amount(collateral_token_max_price, reward_usd.v, cc.decimals)
        remaining_amount == checked_sub(total_amount_out, reward.v)
    IN IF env.leverage_ok THEN Ret("InvalidPositionState", st, i0)
       ELSE IF ~IsOk(fee_amount_usd) THEN Ret(fee_amount_usd.err, st, i0)
       ELSE IF ~IsOk(fee_amount) THEN Ret(fee_amount.err, st, i0)
       ELSE IF ~IsOk(reward_usd) THEN Ret(reward_usd.err, st, i0)
       ELSE IF ~IsOk(reward) THEN Ret(reward.err, st, i0)
       ELSE IF ~IsOk(remaining_amount)
       THEN Ret(remaining_amount.err, st,
                [i0 EXCEPT !.total_amount_out = total_amount_out,
                           !.fee_amount_usd = fee_amount_usd.v,
                           !.fee_amount = fee_amount.v,
                           !.reward_usd = reward_usd.v, !.reward = reward.v])
       ELSE liquidate_apply(st, env,
                [i0 EXCEPT !.total_amount_out = total_amount_out,
                           !.fee_amount_usd = fee_amount_usd.v,
                           !.fee_amount = fee_amount.v,
                           !.reward_usd = reward_usd.v, !.reward = reward.v,
                           !.remaining_amount = remaining_amount.v])

\* liquidate with the close-only gate of remove_collateral added after the
\* two price resolutions.
liquidate_close_only_gated(st, env) ==
    LET custody == st.custody
        cc == st.collateral_custody
        token == new_from_oracle(env.custody_oracle_account, custody.oracle,
                                 env.curtime, custody.is_stable)
        coll == new_from_oracle(env.collateral_custody_oracle_account, cc.oracle,
                                env.curtime, cc.is_stable)
        i1 == [Info0 EXCEPT !.oracle_reads = 1]
        i2 == [Info0 EXCEPT !.oracle_reads = 2, !.token = token.v]
        i3 == [i2 EXCEPT !.collateral_token = coll.v]
    IN IF ~(st.perpetuals.permissions.allow_close_position
            /\ custody.permissions.allow_close_position)
       THEN Ret("InstructionNotAllowed", st, Info0)
       ELSE IF ~IsOk(token) THEN Ret(token.err, st, i1)
       ELSE IF ~IsOk(coll) THEN Ret(coll.err, st, i2)
       ELSE IF token.v.close_only \/ coll.v.close_only
       THEN Ret("InvalidOraclePrice", st, i3)
       ELSE liquidate_settle(st, env, token.v.min, token.v.max,
                             coll.v.min, coll.v.max, i3)

\* liquidate (liquidate.rs 120-327): permissions, the two price resolutions,
\* then the settlement above.
liquidate(st, env) ==
    LET custody == st.custody
        cc == st.collateral_custody
        token == new_from_oracle(env.custody_oracle_account, custody.oracle,
                                 env.curtime, custody.is_stable)
        coll == new_from_oracle(env.collateral_custody_oracle_account, cc.oracle,
                                env.curtime, cc.is_stable)
        i1 == [Info0 EXCEPT !.oracle_reads = 1]
        i2 == [Info0 EXCEPT !.oracle_reads = 2, !.token = token.v]
    IN IF ~(st.perpetuals.permissions.allow_close_position
            /\ custody.permissions.allow_close_position)
       THEN Ret("InstructionNotAllowed", st, Info0)
       ELSE IF ~IsOk(token) THEN Ret(token.err, st, i1)
       ELSE IF ~IsOk(coll) THEN Ret(coll.err, st, i2)
       ELSE liquidate_settle(st, env, token.v.min, token.v.max,
                             coll.v.min, coll.v.max,
                             [i2 EXCEPT !.collateral_token = coll.v])

\* ---------------------------------------------------- remove_collateral.rs
\* remove_collateral_apply taking the net amount, not the gross one, off the
\* custody's posted collateral.
remove_collateral_apply_counts_net(m, env, info) ==
    LET custody == m.custody
        cc == m.collateral_custody
        position == m.position
        updated_collateral == info.collateral - info.fee_amount
        moved == transfer_tokens(m.accounts, "receiving_account", updated_collateral)
        i1 == [info EXCEPT !.transfer_issued = TRUE,
                           !.transfer_to = "receiving_account",
                           !.transfer_amount = updated_collateral]
        m1 == [m EXCEPT !.accounts = moved.v,
                        !.collateral_custody.collected_fees.close_position_usd =
                            wrapping_add(@, info.fee_amount_usd)]
        collateral == checked_sub(cc.assets.collateral, updated_collateral)
        m2 == [m1 EXCEPT !.collateral_custody.assets.collateral = collateral.v]
        protocol_fee == get_fee_amount(custody.fees.protocol_share, info.fee_amount)
        paid == checked_add(cc.assets.protocol_fees, protocol_fee.v)
        m3 == [m2 EXCEPT !.collateral_custody.assets.protocol_fees = paid.v]
        i2 == [i1 EXCEPT !.protocol_fee = protocol_fee.v, !.protocol_fee_paid = TRUE]
    IN IF ~IsOk(moved) THEN Ret(moved.err, m, i1)
       ELSE IF ~IsOk(collateral) THEN Ret(collateral.err, m1, i1)
       ELSE IF ~IsOk(protocol_fee) THEN Ret(protocol_fee.err, m2, i1)
       ELSE IF ~IsOk(paid) THEN Ret(paid.err, m2, i1)
       ELSE IF position.side = "Long" /\ ~custody.is_virtual
       THEN Ret("Ok", [m3 EXCEPT !.custody = m3.collateral_custody], i2)
       ELSE Ret("Ok", m3, i2)

\* remove_collateral.rs 204-233: transfer to the owner, custody balances,
\* same-custody sync.  m holds the position as already updated.
remove_collateral_apply(m, env, info) ==
    LET custody == m.custody
        cc == m.collateral_custody
        position == m.position
        updated_collateral == info.collateral - info.fee_amount
        moved == transfer_tokens(m.accounts, "receiving_account", updated_collateral)
        i1 == [info EXCEPT !.transfer_issued = TRUE,
                           !.transfer_to = "receiving_account",
                           !.transfer_amount = updated_collateral]
        m1 == [m EXCEPT !.accounts = moved.v,
                        !.collateral_custody.collected_fees.close_position_usd =
                            wrapping_add(@, info.fee_amount_usd)]
        collateral == checked_sub(cc.assets.collateral, info.collateral)
        m2 == [m1 EXCEPT !.collateral_custody.assets.collateral = collateral.v]
        protocol_fee == get_fee_amount(custody.fees.protocol_share, info.fee_amount)
        paid == checked_add(cc.assets.protocol_fees, protocol_fee.v)
        m3 == [m2 EXCEPT !.collateral_custody.assets.protocol_fees = paid.v]
        i2 == [i1 EXCEPT !.protocol_fee = protocol_fee.v, !.protocol_fee_paid = TRUE]
    IN IF ~IsOk(moved) THEN Ret(moved.err, m, i1)
       ELSE IF ~IsOk(collateral) THEN Ret(collateral.err, m1, i1)
       ELSE IF ~IsOk(protocol_fee) THEN Ret(protocol_fee.err, m2, i1)
       ELSE IF ~IsOk(paid) THEN Ret(paid.err, m2, i1)
       ELSE IF position.side = "Long" /\ ~custody.is_virtual
       THEN Ret("Ok", [m3 EXCEPT !.custody = m3.collateral_custody], i2)
       ELSE Ret("Ok", m3, i2)

\* remove_collateral_settle with the fee converted at the max price of the
\* collateral band instead of the min price.
remove_collateral_settle_fee_at_max(st, env, params, collateral_token_min_price, collateral_token_max_price, info) ==
    LET cc == st.collateral_custody
        position == st.position
        fee_amount_usd == get_collateral_fee(params.collateral_usd, cc)
        fee_amount == get_token_amount(collateral_token_max_price,
                                       fee_amount_usd.v, cc.decimals)
        collateral == get_token_amount(collateral_token_max_price,
                                       params.collateral_usd, cc.decimals)
        updated_collateral == checked_sub(collateral.v, fee_amount.v)
        i1 == [info EXCEPT !.fee_amount_usd = fee_amount_usd.v,
                           !.fee_amount = fee_amount.v,
                           !.collateral = collateral.v]
        m1 == [st EXCEPT !.position.update_time = env.curtime]
        collateral_usd == checked_sub(position.collateral_usd, params.collateral_usd)
        m2 == [m1 EXCEPT !.position.collateral_usd = collateral_usd.v]
        collateral_amount == checked_sub(position.collateral_amount, collateral.v)
        m3 == [m2 EXCEPT !.position.collateral_amount = collateral_amount.v]
        i2 == [i1 EXCEPT !.leverage_checked = TRUE,
                         !.checked_collateral_usd = m3.position.collateral_usd,
                         !.checked_collateral_amount = m3.position.collateral_amount]
    IN IF ~IsOk(fee_amount_usd) THEN Ret(fee_amount_usd.err, st, info)
       ELSE IF ~IsOk(fee_amount) THEN Ret(fee_amount.err, st, info)
       ELSE IF ~IsOk(collateral) THEN Ret(collateral.err, st, info)
       ELSE IF ~IsOk(updated_collateral) THEN Ret(updated_collateral.err, st, i1)
       ELSE IF collateral.v > position.collateral_amount
       THEN Ret("InsufficientFunds", st, i1)
       ELSE IF ~IsOk(collateral_usd) THEN Ret(collateral_usd.err, m1, i1)
       ELSE IF ~IsOk(collateral_amount) THEN Ret(collateral_amount.err, m2, i1)
       ELSE IF ~env.leverage_ok THEN Ret("MaxLeverage", m3, i2)
       ELSE remove_collateral_apply(m3, env, i2)

\* remove_collateral_settle checking the leverage of the position as it was
\* before the withdrawal was taken off it.
remove_collateral_settle_checks_before_update(st, env, params, collateral_token_min_price, collateral_token_max_price, info) ==
    LET cc == st.collateral_custody
        position == st.position
        fee_amount_usd == get_collateral_fee(params.collateral_usd, cc)
        fee_amount == get_token_amount(collateral_token_min_price,
                                       fee_amount_usd.v, cc.decimals)
        collateral == get_token_amount(collateral_token_max_price,
                                       params.collateral_usd, cc.decimals)
        updated_collateral == checked_sub(collateral.v, fee_amount.v)
        i1 == [info EXCEPT !.fee_amount_usd = fee_amount_usd.v,
                           !.fee_amount = fee_amount.v,
                           !.collateral = collateral.v]
        m1 == [st EXCEPT !.position.update_time = env.curtime]
        collateral_usd == checked_sub(position.collateral_usd, params.collateral_usd)
        m2 == [m1 EXCEPT !.position.collateral_usd = collateral_usd.v]
        collateral_amount == checked_sub(position.collateral_amount, collateral.v)
        m3 == [m2 EXCEPT !.position.collateral_amount = collateral_amount.v]
        i2 == [i1 EXCEPT !.leverage_checked = TRUE,
                         !.checked_collateral_usd = position.collateral_usd,
                         !.checked_collateral_amount = position.collateral_amount]
    IN IF ~IsOk(fee_amount_usd) THEN Ret(fee_amount_usd.err, st, info)
       ELSE IF ~IsOk(fee_amount) THEN Ret(fee_amount.err, st, info)
       ELSE IF ~IsOk(collateral) THEN Ret(collateral.err, st, info)
       ELSE IF ~IsOk(updated_collateral) THEN Ret(updated_collateral.err, st, i1)
       ELSE IF collateral.v > position.collateral_amount
       THEN Ret("InsufficientFunds", st, i1)
       ELSE IF ~env.leverage_ok THEN Ret("MaxLeverage", st, i2)
       ELSE IF ~IsOk(collateral_usd) THEN Ret(collateral_usd.err, m1, i2)
       ELSE IF ~IsOk(collateral_amount) THEN Ret(collateral_amount.err, m2, i2)
       ELSE remove_collateral_apply(m3, env, i2)

\* remove_collateral.rs 166-202: fee and gross amount, funds check, position
\* update, leverage check on the updated position.
remove_collateral_settle(st, env, params, collateral_token_min_price, collateral_token_max_price, info) ==
    LET cc == st.collateral_custody
        position == st.position
        fee_amount_usd == get_collateral_fee(params.collateral_usd, cc)
        fee_amount == get_token_amount(collateral_token_min_price,
                                       fee_amount_usd.v, cc.decimals)
        collateral == get_token_amount(collateral_token_max_price,
                                       params.collateral_usd, cc.decimals)
        updated_collateral == checked_sub(collateral.v, fee_amount.v)
        i1 == [info EXCEPT !.fee_amount_usd = fee_amount_usd.v,
                           !.fee_amount = fee_amount.v,
                           !.collateral = collateral.v]
        m1 == [st EXCEPT !.position.update_time = env.curtime]
        collateral_usd == checked_sub(position.collateral_usd, params.collateral_usd)
        m2 == [m1 EXCEPT !.position.collateral_usd = collateral_usd.v]
        collateral_amount == checked_sub(position.collateral_amount, collateral.v)
        m3 == [m2 EXCEPT !.position.collateral_amount = collateral_amount.v]
        i2 == [i1 EXCEPT !.leverage_checked = TRUE,
                         !.checked_collateral_usd = m3.position.collateral_usd,
                         !.checked_collateral_amount = m3.position.collateral_amount]
    IN IF ~IsOk(fee_amount_usd) THEN Ret(fee_amount_usd.err, st, info)
       ELSE IF ~IsOk(fee_amount) THEN Ret(fee_amount.err, st, info)
       ELSE IF ~IsOk(collateral) THEN Ret(collateral.err, st, info)
       ELSE IF ~IsOk(updated_collateral) THEN Ret(updated_collateral.err, st, i1)
       ELSE IF collateral.v > position.collateral_amount
       THEN Ret("InsufficientFunds", st, i1)
       ELSE IF ~IsOk(collateral_usd) THEN Ret(collateral_usd.err, m1, i1)
       ELSE IF ~IsOk(collateral_amount) THEN Ret(collateral_amount.err, m2, i1)
       ELSE IF ~env.leverage_ok THEN Ret("MaxLeverage", m3, i2)
       ELSE remove_collateral_apply(m3, env, i2)

\* remove_collateral consulting only the custody-level permission flag.
remove_collateral_custody_flag_only(st, env, params) ==
    LET custody == st.custody
        cc == st.collateral_custody
        position == st.position
        token == new_from_oracle(env.custody_oracle_account, custody.oracle,
                                 env.curtime, custody.is_stable)
        coll == new_from_oracle(env.collateral_custody_oracle_account, cc.oracle,
                                env.curtime, cc.is_stable)
        i1 == [Info0 EXCEPT !.oracle_reads = 1]
        i2 == [Info0 EXCEPT !.oracle_reads = 2, !.token = token.v]
        i3 == [i2 EXCEPT !.collateral_token = coll.v]
    IN IF ~custody.permissions.allow_collateral_withdrawal
       THEN Ret("InstructionNotAllowed", st, Info0)
       ELSE IF params.collateral_usd = 0
               \/ params.collateral_usd >= position.collateral_usd
       THEN Ret("InvalidArgument", st, Info0)
       ELSE IF ~IsOk(token) THEN Ret(token.err, st, i1)
       ELSE IF ~IsOk(coll) THEN Ret(coll.err, st, i2)
       ELSE IF token.v.close_only \/ coll.v.close_only
       THEN Ret("InvalidOraclePrice", st, i3)
       ELSE remove_collateral_settle(st, env, params, coll.v.min, coll.v.max, i3)

\* remove_collateral whose upper bound on the request is written > instead
\* of >=.
remove_collateral_allows_full_withdrawal(st, env, params) ==
    LET custody == st.custody
        cc == st.collateral_custody
        position == st.position
        token == new_from_oracle(env.custody_oracle_account, custody.oracle,
                                 env.curtime, custody.is_stable)
        coll == new_from_oracle(env.collateral_custody_oracle_account, cc.oracle,
                                env.curtime, cc.is_stable)
        i1 == [Info0 EXCEPT !.oracle_reads = 1]
        i2 == [Info0 EXCEPT !.oracle_reads = 2, !.token = token.v]
        i3 == [i2 EXCEPT !.collateral_token = coll.v]
    IN IF ~(st.perpetuals.permissions.allow_collateral_withdrawal
            /\ custody.permissions.allow_collateral_withdrawal)
       THEN Ret("InstructionNotAllowed", st, Info0)
       ELSE IF params.collateral_usd = 0
               \/ params.collateral_usd > position.collateral_usd
       THEN Ret("InvalidArgument", st, Info0)
       ELSE IF ~IsOk(token) THEN Ret(token.err, st, i1)
       ELSE IF ~IsOk(coll) THEN Ret(coll.err, st, i2)
       ELSE IF token.v.close_only \/ coll.v.close_only
       THEN Ret("InvalidOraclePrice", st, i3)
       ELSE remove_collateral_settle(st, env, params, coll.v.min, coll.v.max, i3)

\* remove_collateral (remove_collateral.rs 117-236): permissions, input
\* validation, the two price resolutions, the close-only gate, then the
\* settlement above.
remove_collateral(st, env, params) ==
    LET custody == st.custody
        cc == st.collateral_custody
        position == st.position
        token == new_from_oracle(env.custody_oracle_account, custody.oracle,
                                 env.curtime, custody.is_stable)
        coll == new_from_oracle(env.collateral_custody_oracle_account, cc.oracle,
                                env.curtime, cc.is_stable)
        i1 == [Info0 EXCEPT !.oracle_reads = 1]
        i2 == [Info0 EXCEPT !.oracle_reads = 2, !.token = token.v]
        i3 == [i2 EXCEPT !.collateral_token = coll.v]
    IN IF ~(st.perpetuals.permissions.allow_collateral_withdrawal
            /\ custody.permissions.allow_collateral_withdrawal)
       THEN Ret("InstructionNotAllowed", st, Info0)
       ELSE IF params.collateral_usd = 0
               \/ params.collateral_usd >= position.collateral_usd
       THEN Ret("InvalidArgument", st, Info0)
       ELSE IF ~IsOk(token) THEN Ret(token.err, st, i1)
       ELSE IF ~IsOk(coll) THEN Ret(coll.err, st, i2)
       ELSE IF token.v.close_only \/ coll.v.close_only
       THEN Ret("InvalidOraclePrice", st, i3)
       ELSE remove_collateral_settle(st, env, params, coll.v.min, coll.v.max, i3)

\* ------------------------------------------------ get_exit_price_and_fee.rs
\* Pool::get_exit_price(token_min_price, token_max_price, side, custody): a
\* long exits (sells) at the low end of the asset band, a short at the high
\* end.  The custody's spread is not among the modelled fields.
get_exit_price(token_min_price, token_max_price, side, custody) ==
    IF side = "Long" THEN Ok(token_min_price) ELSE Ok(token_max_price)

\* get_exit_price_and_fee with the fee converted at the max price of the
\* collateral band.
get_exit_price_and_fee_at_max(st, env, pool) ==
    LET custody == st.custody
        cc == st.collateral_custody
        position == st.position
        token == new_from_oracle(env.custody_oracle_account, custody.oracle,
                                 env.curtime, custody.is_stable)
        coll == new_from_oracle(env.collateral_custody_oracle_account, cc.oracle,
                                env.curtime, cc.is_stable)
        price == get_exit_price(token.v.min, token.v.max, position.side, custody)
        fee_amount_usd == get_asset_amount_usd(token.v.max, pool.exit_fee,
                                               custody.decimals)
        fee == IF position.side = "Short" \/ custody.is_virtual
               THEN IF IsOk(fee_amount_usd)
                    THEN get_token_amount(coll.v.max, fee_amount_usd.v, cc.decimals)
                    ELSE fee_amount_usd
               ELSE Ok(pool.exit_fee)
    IN IF ~IsOk(token) THEN token
       ELSE IF ~IsOk(coll) THEN coll
       ELSE IF ~IsOk(price) THEN price
       ELSE IF ~IsOk(fee) THEN fee
       ELSE Ok([price |-> price.v, fee |-> fee.v])

\* get_exit_price_and_fee (get_exit_price_and_fee.rs 83-123).  pool.exit_fee
\* is the answer of Pool::get_exit_fee(position.size_usd, custody), an
\* amount of the asset token.
get_exit_price_and_fee(st, env, pool) ==
    LET custody == st.custody
        cc == st.collateral_custody
        position == st.position
        token == new_from_oracle(env.custody_oracle_account, custody.oracle,
                                 env.curtime, custody.is_stable)
        coll == new_from_oracle(env.collateral_custody_oracle_account, cc.oracle,
                                env.curtime, cc.is_stable)
        price == get_exit_price(token.v.min, token.v.max, position.side, custody)
        fee_amount_usd == get_asset_amount_usd(token.v.max, pool.exit_fee,
                                               custody.decimals)
        fee == IF position.side = "Short" \/ custody.is_virtual
               THEN IF IsOk(fee_amount_usd)
                    THEN get_token_amount(coll.v.min, fee_amount_usd.v, cc.decimals)
                    ELSE fee_amount_usd
               ELSE Ok(pool.exit_fee)
    IN IF ~IsOk(token) THEN token
       ELSE IF ~IsOk(coll) THEN coll
       ELSE IF ~IsOk(price) THEN price
       ELSE IF ~IsOk(fee) THEN fee
       ELSE Ok([price |-> price.v, fee |-> fee.v])

\* ------------------------------------ get_remove_liquidity_amount_and_fee.rs
\* checked_as_u64(checked_div(checked_mul(a, b as u128), d as u128)) of
\* get_remove_liquidity_amount_and_fee.rs 92-95: floor(a * b / d) when it
\* fits the u64, an error when d = 0 or when it does not fit.  The product is
\* taken in parts, a = q * d + r, so that it stays in the checker's integers:
\* floor(a * b / d) = q * b + floor(r * b / d).
mul_div_as_u64(a, b, d) ==
    IF d = 0 THEN Err("MathOverflow")
    ELSE LET q == a \div d
             r == a % d
         IN IF q > 0 /\ b > U64_MAX \div q THEN Err("MathOverflow")
            ELSE checked_add(q * b, (r * b) \div d)

\* get_remove_liquidity_amount_and_fee converting at the min price of the
\* asset band.
get_remove_liquidity_amount_and_fee_at_min(st, env, pool, params) ==
    LET custody == st.custody
        token == new_from_oracle(env.custody_oracle_account, custody.oracle,
                                 env.curtime, custody.is_stable)
        remove_amount_usd == mul_div_as_u64(pool.pool_amount_usd,
                                            params.lp_amount_in, pool.lp_supply)
        remove_amount == get_token_amount(token.v.min, remove_amount_usd.v,
                                          custody.decimals)
        fee_amount == pool.remove_liquidity_fee
        transfer_amount == checked_sub(remove_amount.v, fee_amount)
    IN IF params.lp_amount_in = 0 THEN Err("InvalidArgument")
       ELSE IF ~IsOk(token) THEN token
       ELSE IF ~IsOk(remove_amount_usd) THEN remove_amount_usd
       ELSE IF ~IsOk(remove_amount) THEN remove_amount
       ELSE IF ~IsOk(transfer_amount) THEN transfer_amount
       ELSE Ok([amount |-> transfer_amount.v, fee |-> fee_amount])

\* get_remove_liquidity_amount_and_fee
\* (get_remove_liquidity_amount_and_fee.rs 66-108).
get_remove_liquidity_amount_and_fee(st, env, pool, params) ==
    LET custody == st.custody
        token == new_from_oracle(env.custody_oracle_account, custody.oracle,
                                 env.curtime, custody.is_stable)
        remove_amount_usd == mul_div_as_u64(pool.pool_amount_usd,
                                            params.lp_amount_in, pool.lp_supply)
        remove_amount == get_token_amount(token.v.max, remove_amount_usd.v,
                                          custody.decimals)
        fee_amount == pool.remove_liquidity_fee
        transfer_amount == checked_sub(remove_amount.v, fee_amount)
    IN IF params.lp_amount_in = 0 THEN Err("InvalidArgument")
       ELSE IF ~IsOk(token) THEN token
       ELSE IF ~IsOk(remove_amount_usd) THEN remove_amount_usd
       ELSE IF ~IsOk(remove_amount) THEN remove_amount
       ELSE IF ~IsOk(transfer_amount) THEN transfer_amount
       ELSE Ok([amount |-> transfer_amount.v, fee |-> fee_amount])

\* ================================================================ state
VARIABLES
    perpetuals,          \* Perpetuals account: the global permissions
    custody,             \* the position's asset custody record
    collateral_custody,  \* the position's collateral custody record
    position,            \* the Position account (open = FALSE once closed)
    accounts,            \* SPL token balances of the three token accounts
    ops,                 \* successful calls so far
    call,                \* the last handler call: inputs, pre-state, outcome
    oracle_call,         \* the last price resolution: inputs and result
    query,               \* the last read-only query: inputs and result
    calc                 \* the last fixed-point computation: operands, result

vars == <<perpetuals, custody, collateral_custody, position, accounts, ops,
          call, oracle_call, query, calc>>

State ==
    [perpetuals |-> perpetuals, custody |-> custody,
     collateral_custody |-> collateral_custody, position |-> position,
     accounts |-> accounts]

\* ---------------------------------------------------------- initial states
Permissions(close, withdraw) ==
    [allow_close_position |-> close, allow_collateral_withdrawal |-> withdraw]

\* Custody (state/custody.rs) restricted to the fields the handlers touch.
Custody(mint, decimals, is_stable, is_virtual, permissions, remove_fee, owned, collateral, protocol_fees, locked) ==
    [mint |-> mint, decimals |-> decimals, is_stable |-> is_stable,
     is_virtual |-> is_virtual,
     oracle |-> OracleParams("Pyth", 50, 100, MaxAge),
     fees |-> [liquidation |-> 100, protocol_share |-> 1000,
               remove_collateral |-> remove_fee],
     permissions |-> permissions,
     assets |-> [owned |-> owned, collateral |-> collateral,
                 protocol_fees |-> protocol_fees, locked |-> locked],
     trade_stats |-> [oi_long |-> 60000, oi_short |-> 60000,
                      profit_usd |-> 0, loss_usd |-> U64_MAX],
     volume_stats |-> [liquidation_usd |-> 0],
     collected_fees |-> [liquidation_usd |-> 0, close_position_usd |-> 0]]

\* Position (state/position.rs) restricted to the fields the handlers touch.
Position(side, size_usd, collateral_usd, collateral_amount, locked_amount) ==
    [open |-> TRUE, side |-> side, size_usd |-> size_usd,
     collateral_usd |-> collateral_usd, collateral_amount |-> collateral_amount,
     price |-> 200, locked_amount |-> locked_amount, update_time |-> 0]

AllowAll == Permissions(TRUE, TRUE)

\* A long position on a token that also backs it: one custody account in
\* both roles.
SameCustodyWorld(global, local, owned, protocol_fees) ==
    LET c == Custody("SOL", 2, FALSE, FALSE, local, 100, owned, 15000,
                     protocol_fees, 50000)
    IN [perpetuals |-> [permissions |-> global], custody |-> c,
        collateral_custody |-> c,
        position |-> Position("Long", 100000, 30000, 15000, 50000),
        accounts |-> [custody_token_account |-> 2000000, receiving_account |-> 0,
                      rewards_receiving_account |-> 0]]

\* A position backed by a 6-decimal stable token: a short, or a long on a
\* virtual custody.  5000.00 USD of collateral are posted.
StableCollateralWorld(side, is_virtual, remove_fee) ==
    [perpetuals |-> [permissions |-> AllowAll],
     custody |-> Custody("SOL", 2, FALSE, is_virtual, AllowAll, 0, 10000, 0, 0, 0),
     collateral_custody |-> Custody("USDC", 6, TRUE, FALSE, AllowAll, remove_fee,
                                    100000000, 2000000000, 0, 200000000),
     position |-> Position(side, 200000, 500000, 2000000000, 50000000),
     accounts |-> [custody_token_account |-> 2100000000, receiving_account |-> 0,
                   rewards_receiving_account |-> 0]]

\* A short position whose custody and collateral custody are one account:
\* the account constraints of the two instructions admit it.
SameCustodyShortWorld ==
    [SameCustodyWorld(AllowAll, AllowAll, 1000000, 0)
       EXCEPT !.position.side = "Short"]

\* A custody that owns next to nothing, holds the collateral of other
\* positions besides this one's, and passes no share of its fees on.
SharedCustodyWorld ==
    [SameCustodyWorld(AllowAll, AllowAll, 2, 0)
       EXCEPT !.custody.assets.collateral = 30000,
              !.collateral_custody.assets.collateral = 30000,
              !.custody.fees.protocol_share = 0,
              !.collateral_custody.fees.protocol_share = 0]

\* The same custody passing the usual share of its fees on.
ThinCustodyWorld ==
    [SameCustodyWorld(AllowAll, AllowAll, 5, 0)
       EXCEPT !.custody.assets.collateral = 30000,
              !.collateral_custody.assets.collateral = 30000]

Worlds ==
    { SameCustodyWorld(AllowAll, AllowAll, 1000000, 0),
      SharedCustodyWorld,
      ThinCustodyWorld,
      SameCustodyShortWorld,
      SameCustodyWorld(AllowAll, AllowAll, 5, U64_MAX),
      SameCustodyWorld(Permissions(FALSE, TRUE), AllowAll, 1000000, 0),
      SameCustodyWorld(Permissions(TRUE, FALSE), AllowAll, 1000000, 0),
      SameCustodyWorld(AllowAll, Permissions(FALSE, TRUE), 1000000, 0),
      SameCustodyWorld(AllowAll, Permissions(TRUE, FALSE), 1000000, 0),
      StableCollateralWorld("Short", FALSE, 0),
      StableCollateralWorld("Short", FALSE, 100),
      StableCollateralWorld("Long", TRUE, 100) }

\* ------------------------------------------------------------ environment
\* Contents an oracle account may have when a handler reads it.
Fresh == CurTime
Aged == CurTime - MaxAge
Stale == CurTime - MaxAge - 1

TokenFeeds ==
    { PythFeed(TRUE, 200, 2, -2, Aged, 200),     \* spot = ema
      PythFeed(TRUE, 200, 1, -2, Fresh, 180),    \* ema away, confidence small
      PythFeed(TRUE, 200, 10, -2, Fresh, 180),   \* ema away, confidence large
      PythFeed(TRUE, 200, 2, -2, Fresh, 220),    \* ema above spot
      PythFeed(TRUE, 200, 2, -2, Stale, 200) }   \* too old

StableFeeds ==
    { PythFeed(TRUE, 1000000, 100, -6, Fresh, 1000000),   \* on the peg
      PythFeed(TRUE, 990000, 100, -6, Fresh, 1000000),    \* below the peg
      PythFeed(TRUE, 1000100, 100, -6, Fresh, 1000000) }  \* above the peg

Feeds(c) == IF c.is_stable THEN StableFeeds ELSE TokenFeeds

SameAccount == custody.mint = collateral_custody.mint

\* Pool::get_close_amount answers: (total_amount_out, fee_amount, profit_usd,
\* loss_usd), in collateral tokens and USD.
CloseAmounts ==
    { [total_amount_out |-> 0, fee_amount |-> 0, profit_usd |-> 0, loss_usd |-> 900],
      [total_amount_out |-> position.collateral_amount \div 2, fee_amount |-> 10,
       profit_usd |-> 0, loss_usd |-> 100],
      [total_amount_out |-> position.collateral_amount + 5, fee_amount |-> 10,
       profit_usd |-> 50, loss_usd |-> 0] }

NoClose == [total_amount_out |-> 0, fee_amount |-> 0, profit_usd |-> 0, loss_usd |-> 0]

Env(f1, f2, lev, close) ==
    [curtime |-> CurTime, custody_oracle_account |-> f1,
     collateral_custody_oracle_account |-> f2, leverage_ok |-> lev,
     close |-> close]

FeedPairs ==
    { p \in Feeds(custody) \X Feeds(collateral_custody) :
        SameAccount => p[1] = p[2] }

RequestedUsd == {0, 10000, 100000, position.collateral_usd, U64_MAX}

\* What the successful RemoveCollateral calls of a run have taken so far:
\* the requested USD and the gross token amounts, the position the run
\* began with, and the collateral that the other open positions of the
\* collateral custody had posted then.
NoneWithdrawn ==
    [usd |-> 0, gross |-> 0, first |-> position,
     posted_by_others |-> collateral_custody.assets.collateral
                            - position.collateral_amount]

NoCall ==
    [op |-> "none", env |-> Env(PythFeed(FALSE, 0, 0, 0, 0, 0),
                                PythFeed(FALSE, 0, 0, 0, 0, 0), FALSE, NoClose),
     collateral_usd |-> 0, pre |-> State, err |-> "Ok", info |-> Info0,
     mem |-> State, withdrawn |-> NoneWithdrawn]

NoOracleCall ==
    [feed |-> PythFeed(FALSE, 0, 0, 0, 0, 0),
     params |-> OracleParams("None", 0, 0, 0), current_time |-> 0,
     is_stable |-> FALSE, done |-> FALSE, result |-> Err("none")]

\* What a query reads from the Pool account and the LP mint: the answers of
\* Pool::get_exit_fee, Pool::get_assets_under_management_usd (minimum
\* valuation) and Pool::get_remove_liquidity_fee, and lp_token_mint.supply.
PoolAnswers(exit_fee, pool_amount_usd, lp_supply, remove_liquidity_fee) ==
    [exit_fee |-> exit_fee, pool_amount_usd |-> pool_amount_usd,
     lp_supply |-> lp_supply, remove_liquidity_fee |-> remove_liquidity_fee]

NoQuery == [op |-> "none", env |-> Env(PythFeed(FALSE, 0, 0, 0, 0, 0), PythFeed(FALSE, 0, 0, 0, 0, 0), FALSE, NoClose), pool |-> PoolAnswers(0, 0, 0, 0), lp_amount_in |-> 0, result |-> Err("none")]

NoCalc == [op |-> "none"]

Init ==
    /\ \E w \in Worlds :
          /\ perpetuals = w.perpetuals
          /\ custody = w.custody
          /\ collateral_custody = w.collateral_custody
          /\ position = w.position
          /\ accounts = w.accounts
    /\ ops = 0
    /\ call = NoCall
    /\ oracle_call = NoOracleCall
    /\ query = NoQuery
    /\ calc = NoCalc

\* --------------------------------------------------------------- actions
\* A boundary that keeps the in-memory records and balances of a handler
\* that returned an error.
CommitAlways(r, closes_position) ==
    /\ perpetuals' = r.st.perpetuals
    /\ collateral_custody' = r.st.collateral_custody
    /\ custody' = IF SameAccount THEN r.st.collateral_custody ELSE r.st.custody
    /\ position' = IF closes_position /\ r.err = "Ok"
                    THEN [r.st.position EXCEPT !.open = FALSE]
                    ELSE r.st.position
    /\ accounts' = r.st.accounts
    /\ ops' = IF r.err = "Ok" THEN ops + 1 ELSE ops

\* The transaction boundary of the runtime: a handler that returns Ok has
\* its in-memory records written back, one that returns an error has every
\* change (records and token balances) discarded.  When both custody roles
\* are one account, the record written last (collateral_custody, declared
\* after custody in the Accounts struct) is what the account holds.
Commit(r, closes_position) ==
    IF r.err = "Ok"
    THEN /\ perpetuals' = r.st.perpetuals
         /\ collateral_custody' = r.st.collateral_custody
         /\ custody' = IF SameAccount THEN r.st.collateral_custody ELSE r.st.custody
         /\ position' = IF closes_position
                         THEN [r.st.position EXCEPT !.open = FALSE]
                         ELSE r.st.position
         /\ accounts' = r.st.accounts
         /\ ops' = ops + 1
    ELSE UNCHANGED <<perpetuals, custody, collateral_custody, position,
                     accounts, ops>>

\* A run is a sequence of successful calls that ends with the position
\* closed, with MaxOps calls made, or at the first call that fails (a failed
\* call leaves every record and balance as it was, so the calls that could
\* follow it are those that could replace it).
Callable == position.open /\ ops < MaxOps /\ call.err = "Ok"

\* The Liquidate instruction (liquidate.rs 19-115 accounts, 120-327 handler).
Liquidate ==
    /\ Callable
    /\ \E p \in FeedPairs, lev \in BOOLEAN, close \in CloseAmounts :
          LET env == Env(p[1], p[2], lev, close)
              r == liquidate(State, env)
          IN /\ Commit(r, TRUE)
             /\ call' = [op |-> "Liquidate", env |-> env, collateral_usd |-> 0,
                         pre |-> State, err |-> r.err, info |-> r.info,
                         mem |-> r.st, withdrawn |-> call.withdrawn]
    /\ UNCHANGED <<oracle_call, query, calc>>

\* The RemoveCollateral instruction (remove_collateral.rs 20-110 accounts,
\* 117-236 handler).
RemoveCollateral ==
    /\ Callable
    /\ \E p \in FeedPairs, lev \in BOOLEAN, usd \in RequestedUsd :
          LET env == Env(p[1], p[2], lev, NoClose)
              r == remove_collateral(State, env, [collateral_usd |-> usd])
          IN /\ Commit(r, FALSE)
             /\ call' = [op |-> "RemoveCollateral", env |-> env,
                         collateral_usd |-> usd, pre |-> State, err |-> r.err,
                         info |-> r.info, mem |-> r.st,
                         withdrawn |->
                           IF r.err = "Ok"
                           THEN [call.withdrawn EXCEPT
                                   !.usd = @ + usd,
                                   !.gross = @ + r.info.collateral]
                           ELSE call.withdrawn]
    /\ UNCHANGED <<oracle_call, query, calc>>

Next == Liquidate \/ RemoveCollateral

Spec == Init /\ [][Next]_vars

\* ------------------------------------------- price resolution on its own
\* new_from_oracle is a function of one oracle account, one custody's
\* OracleParams, the clock and is_stable.  OracleSpec draws these and
\* applies it; the settlement records stay as first created.
OraclePrices ==
    { <<p, e, ema>> : p \in {-5, 0, 90, 100, 110}, e \in {-2},
                      ema \in {-5, 90, 100, 110} }
    \cup { <<p, e, ema>> : p \in {990000, 999900, 1000000, 1000100}, e \in {-6},
                           ema \in {990000, 1000000, 1000100} }
    \cup { <<100, 1, 100>> }

OracleFeeds ==
    { PythFeed(TRUE, x[1], conf, x[2], t, x[3]) :
        x \in OraclePrices, conf \in {0, 1, 20, 120}, t \in {Stale, Aged, Fresh} }
    \cup { PythFeed(FALSE, 0, 0, 0, 0, 0) }

OracleParamSets ==
    { OracleParams(type, thr, maxerr, MaxAge) :
        type \in {"None", "Custom", "Pyth"}, thr \in {50, 2000}, maxerr \in {100, 30000} }

OracleInit ==
    /\ LET w == SameCustodyWorld(AllowAll, AllowAll, 1000000, 0)
       IN /\ perpetuals = w.perpetuals
          /\ custody = w.custody
          /\ collateral_custody = w.collateral_custody
          /\ position = w.position
          /\ accounts = w.accounts
    /\ ops = 0
    /\ call = NoCall
    /\ query = NoQuery
    /\ calc = NoCalc
    /\ \E feed \in OracleFeeds, params \in OracleParamSets, stable \in BOOLEAN :
          oracle_call = [feed |-> feed, params |-> params, current_time |-> CurTime,
                         is_stable |-> stable, done |-> FALSE, result |-> Err("none")]

Resolve ==
    /\ ~oracle_call.done
    /\ oracle_call' =
          [oracle_call EXCEPT
             !.done = TRUE,
             !.result = new_from_oracle(oracle_call.feed, oracle_call.params,
                                        oracle_call.current_time,
                                        oracle_call.is_stable)]
    /\ UNCHANGED <<perpetuals, custody, collateral_custody, position, accounts,
                   ops, call, query, calc>>

OracleNext == Resolve

OracleSpec == OracleInit /\ [][OracleNext]_vars

\* ------------------------------------------------------ read-only queries
\* The view instructions read the accounts and return a value; they write
\* nothing.  QuerySpec starts from the account sets of Init and applies one
\* query.
ExitFees == {0, 10, 1000}

\* The GetExitPriceAndFee instruction (get_exit_price_and_fee.rs 14-123).
GetExitPriceAndFee ==
    /\ query.op = "none"
    /\ \E p \in FeedPairs, fee \in ExitFees :
          LET env == Env(p[1], p[2], FALSE, NoClose)
              pool == PoolAnswers(fee, 0, 0, 0)
          IN query' = [op |-> "GetExitPriceAndFee", env |-> env, pool |-> pool,
                       lp_amount_in |-> 0,
                       result |-> get_exit_price_and_fee(State, env, pool)]
    /\ UNCHANGED <<perpetuals, custody, collateral_custody, position, accounts,
                   ops, call, oracle_call, calc>>

PoolAmountsUsd == {0, 1000000, U64_MAX}
LpSupplies == {0, 100}
LpAmountsIn == {0, 1, 50, 200}
RemoveLiquidityFees == {0, 7, U64_MAX}

\* The GetRemoveLiquidityAmountAndFee instruction
\* (get_remove_liquidity_amount_and_fee.rs 18-108).
GetRemoveLiquidityAmountAndFee ==
    /\ query.op = "none"
    /\ \E f \in Feeds(custody), aum \in PoolAmountsUsd, supply \in LpSupplies,
          lp \in LpAmountsIn, fee \in RemoveLiquidityFees :
          LET env == Env(f, f, FALSE, NoClose)
              pool == PoolAnswers(0, aum, supply, fee)
              params == [lp_amount_in |-> lp]
          IN query' = [op |-> "GetRemoveLiquidityAmountAndFee", env |-> env,
                       pool |-> pool, lp_amount_in |-> lp,
                       result |-> get_remove_liquidity_amount_and_fee(
                                      State, env, pool, params)]
    /\ UNCHANGED <<perpetuals, custody, collateral_custody, position, accounts,
                   ops, call, oracle_call, calc>>

QueryNext == GetExitPriceAndFee \/ GetRemoveLiquidityAmountAndFee

QuerySpec == Init /\ [][QueryNext]_vars

\* OraclePrice::normalize (oracle.rs 268-281).
RECURSIVE normalize(_)
normalize(self) ==
    IF self.price > ORACLE_MAX_PRICE
    THEN normalize(OraclePrice(self.price \div 10, self.exponent + 1))
    ELSE Ok(self)

\* OraclePrice::checked_mul (oracle.rs 299-304).
price_checked_mul(self, other) ==
    LET price == checked_mul(self.price, other.price)
    IN IF ~IsOk(price) THEN price
       ELSE Ok(OraclePrice(price.v, self.exponent + other.exponent))

\* OraclePrice::checked_div (oracle.rs 283-297).  base.price is at most
\* ORACLE_MAX_PRICE, so base.price * ORACLE_PRICE_SCALE (10^9, that is
\* 10^-ORACLE_EXPONENT_SCALE) fits 64 bits and the multiplication never
\* fails; the quotient is computed by long division.
price_checked_div(self, other) ==
    LET base == normalize(self)
        divisor == normalize(other)
        price == DivPow10(base.v.price, -ORACLE_EXPONENT_SCALE, divisor.v.price)
    IN IF ~IsOk(base) THEN base
       ELSE IF ~IsOk(divisor) THEN divisor
       ELSE IF divisor.v.price = 0 THEN Err("MathOverflow")
       ELSE IF ~IsOk(price) THEN price
       ELSE Ok(OraclePrice(price.v, base.v.exponent + ORACLE_EXPONENT_SCALE
                                      - divisor.v.exponent))

\* ------------------------------------------------- fixed-point values
\* The OraclePrice operations are functions of their operands.  ArithSpec
\* draws the operands and applies one operation.
Mantissas == {0, 1, 7, 123, 12300, 12345, 100000000, U64_MAX \div 1000, U64_MAX}
Exponents == {-9, -6, -3, 0, 2}
ExponentSteps == {-10, -6, -3, -2, -1, 0, 1, 2, 3, 4, 10}

\* self.scale_to_exponent(target), and the result scaled back to
\* self.exponent.
ScaleToExponent ==
    /\ calc.op = "none"
    /\ \E m \in Mantissas, e \in Exponents, d \in ExponentSteps :
          LET self == OraclePrice(m, e)
              scaled == scale_to_exponent(self, e + d)
          IN calc' = [op |-> "scale_to_exponent", self |-> self,
                      target_exponent |-> e + d, result |-> scaled,
                      back |-> IF IsOk(scaled)
                               THEN scale_to_exponent(scaled.v, e)
                               ELSE scaled]
    /\ UNCHANGED <<perpetuals, custody, collateral_custody, position, accounts,
                   ops, call, oracle_call, query>>

\* a.checked_mul(b), and the product divided by b again.  Quotients above
\* U64_MAX are left out: the program's 64-bit word holds every quotient of
\* a normalized mantissa.
Multiplicands == {0, 1, 2, 7, 12, 21, 268435459}
Multipliers == {0, 1, 3, 1000, 40000001, 200000000, 300000000}
MulExponents == {-3, 0}
MulThenDiv ==
    /\ calc.op = "none"
    /\ \E m \in Multiplicands, n \in Multipliers, e1 \in MulExponents, e2 \in MulExponents :
          LET a == OraclePrice(m, e1)
              b == OraclePrice(n, e2)
              product == price_checked_mul(a, b)
              quotient == IF IsOk(product) THEN price_checked_div(product.v, b)
                          ELSE product
          IN /\ IsOk(product) /\ normalize(b).v.price # 0
                  => IsOk(DivPow10(normalize(product.v).v.price,
                                   -ORACLE_EXPONENT_SCALE, normalize(b).v.price))
             /\ calc' = [op |-> "mul_then_div", a |-> a, b |-> b,
                         product |-> product, result |-> quotient]
    /\ UNCHANGED <<perpetuals, custody, collateral_custody, position, accounts,
                   ops, call, oracle_call, query>>

ArithInit ==
    /\ LET w == SameCustodyWorld(AllowAll, AllowAll, 1000000, 0)
       IN /\ perpetuals = w.perpetuals
          /\ custody = w.custody
          /\ collateral_custody = w.collateral_custody
          /\ position = w.position
          /\ accounts = w.accounts
    /\ ops = 0
    /\ call = NoCall
    /\ oracle_call = NoOracleCall
    /\ query = NoQuery
    /\ calc = NoCalc

ArithNext == ScaleToExponent \/ MulThenDiv

ArithSpec == ArithInit /\ [][ArithNext]_vars

\* ------------------------------------------------- properties: the oracle
AbsDiff(a, b) == IF a >= b THEN a - b ELSE b - a

\* The primary reading of the resolution just made, and its age.
Reading == oracle_call.feed
ReadingAge == oracle_call.current_time - oracle_call.feed.publish_time
ReadingMaxAge == oracle_call.params.max_price_age_sec
Resolved == oracle_call.done /\ oracle_call.feed.readable
ResolvedFresh == Resolved /\ ReadingAge <= ReadingMaxAge /\ Reading.price > 0

\* C2: a primary reading older than max_price_age_sec makes the resolution
\* fail with InvalidOraclePrice, whatever the feed kind and is_stable; a
\* reading whose age is exactly max_price_age_sec is not stale: it resolves
\* to what the same reading published at current_time resolves to.
\* (Timestamps are those of a clock: current_time - publish_time stays
\* within i64, so the checked subtraction of oracle.rs 421 does not fail.)
C2_StaleReadingFails ==
    Resolved =>
      /\ (ReadingAge > ReadingMaxAge
            => oracle_call.result.err = "InvalidOraclePrice")
      /\ (ReadingAge = ReadingMaxAge
            => oracle_call.result =
                 new_from_oracle(
                   [Reading EXCEPT !.publish_time = oracle_call.current_time],
                   oracle_call.params, oracle_call.current_time,
                   oracle_call.is_stable))

\* A stale reading that would otherwise give a band: spot equal to EMA.
C2_Witness ==
    /\ Resolved
    /\ ReadingAge = ReadingMaxAge + 1
    /\ Reading.price = 100 /\ Reading.ema_price = 100 /\ Reading.conf = 0
    /\ oracle_call.params.oracle_type = "Pyth"
    /\ ~oracle_call.is_stable
    /\ oracle_call.result.err = "InvalidOraclePrice"

\* The band the stable rule describes: oneUnit = 10^(-exponent),
\* diffBps = |price - oneUnit| * 10000 / price.
StablePegBand(price, expo, thr) ==
    LET oneUnit == checked_pow10(-expo).v
        diffBps == (AbsDiff(price, oneUnit) * BPS_POWER) \div price
    IN IF diffBps < thr THEN Band(price, price, expo, FALSE)
       ELSE IF price < oneUnit THEN Band(price, oneUnit, expo, FALSE)
       ELSE Band(oneUnit, price, expo, FALSE)

\* C3: for a fresh stable reading (exponent at most 0) the resolution
\* succeeds, above the peg as below it, with the band [price, price] when
\* diffBps is below max_difference_threshold and the band between price and
\* oneUnit otherwise; closeOnly is false.
C3_StableBandEitherSide ==
    (ResolvedFresh /\ oracle_call.is_stable /\ Reading.expo <= 0)
      => oracle_call.result =
           StablePegBand(Reading.price, Reading.expo,
                         oracle_call.params.max_difference_threshold)

\* diffBps of a non-stable reading: |price - ema| * 10000 / price.
EmaDiffBps == (AbsDiff(Reading.price, Reading.ema_price) * BPS_POWER)
                 \div Reading.price

NonStableFresh ==
    ResolvedFresh /\ ~oracle_call.is_stable /\ Reading.ema_price > 0

\* C4: for a fresh non-stable reading the spot/EMA difference is computed
\* without failing, for an EMA above, equal to or below the spot, and equals
\* |price - ema| * 10000 / price; when it is below max_difference_threshold
\* the band is [price, price] with closeOnly false.
C4_EmaDiffEitherSide ==
    NonStableFresh =>
      /\ get_price_diff(Reading.price, Reading.ema_price) = Ok(EmaDiffBps)
      /\ (EmaDiffBps < oracle_call.params.max_difference_threshold
            => oracle_call.result =
                 Band(Reading.price, Reading.price, Reading.expo, FALSE))

\* C5: for a fresh non-stable reading whose spot/EMA difference is not below
\* max_difference_threshold (and whose confidence does not exceed the
\* price), confBps = conf * 10000 / price decides: below max_price_error
\* the band is [price - conf, price + conf] with closeOnly false; otherwise
\* a Custom feed fails with InvalidOraclePrice and any other feed returns
\* the same band with closeOnly true.
C5_ConfidenceBand ==
    (/\ NonStableFresh
     /\ EmaDiffBps >= oracle_call.params.max_difference_threshold
     /\ Reading.conf <= Reading.price)
      => LET confBps == (Reading.conf * BPS_POWER) \div Reading.price
             lo == Reading.price - Reading.conf
             hi == Reading.price + Reading.conf
         IN IF confBps < oracle_call.params.max_price_error
            THEN oracle_call.result = Band(lo, hi, Reading.expo, FALSE)
            ELSE IF oracle_call.params.oracle_type = "Custom"
            THEN oracle_call.result.err = "InvalidOraclePrice"
            ELSE oracle_call.result = Band(lo, hi, Reading.expo, TRUE)

\* --------------------------------------------- properties: the handlers
\* The last call, and the bands its two oracle accounts resolve to under the
\* custody records the call started from.
Called(op) == call.op = op
Failed == call.op # "none" /\ call.err # "Ok"
CallTokenBand ==
    new_from_oracle(call.env.custody_oracle_account, call.pre.custody.oracle,
                    call.env.curtime, call.pre.custody.is_stable)
CallCollateralBand ==
    new_from_oracle(call.env.collateral_custody_oracle_account,
                    call.pre.collateral_custody.oracle,
                    call.env.curtime, call.pre.collateral_custody.is_stable)
BandsResolved ==
    call.info.oracle_reads = 2 /\ IsOk(CallTokenBand) /\ IsOk(CallCollateralBand)

NeverCloseOnly(st) ==
    [st EXCEPT !.custody.oracle.max_price_error = U64_MAX,
               !.collateral_custody.oracle.max_price_error = U64_MAX]

\* C6: when both bands resolve and either is close-only, RemoveCollateral
\* fails with InvalidOraclePrice and moves nothing, while Liquidate on the
\* same readings returns the error code, computes the amounts and leaves the
\* records and balances it would with the flag false.
C6_CloseOnlyBlocksWithdrawalOnly ==
    (BandsResolved
       /\ (CallTokenBand.v.close_only \/ CallCollateralBand.v.close_only))
      => /\ Called("RemoveCollateral")
            => /\ call.err = "InvalidOraclePrice"
               /\ ~call.info.transfer_issued
               /\ State = call.pre
         /\ Called("Liquidate")
            => LET r == liquidate(NeverCloseOnly(call.pre), call.env)
               IN /\ r.info.token.close_only = FALSE
                  /\ r.info.collateral_token.close_only = FALSE
                  /\ call.err = r.err
                  /\ NeverCloseOnly(call.mem) = r.st
                  /\ [call.info EXCEPT !.token.close_only = FALSE,
                                       !.collateral_token.close_only = FALSE]
                       = r.info
                  /\ (call.err = "Ok"
                        => NeverCloseOnly(State)
                             = [r.st EXCEPT !.position.open = FALSE,
                                            !.custody =
                                               IF call.pre.custody.mint
                                                    = call.pre.collateral_custody.mint
                                               THEN r.st.collateral_custody
                                               ELSE r.st.custody])

\* A liquidation that went through on a close-only asset band.
C6_Witness ==
    /\ Called("Liquidate")
    /\ call.info.token.close_only
    /\ call.err = "Ok"
    /\ ~position.open
    /\ call.info.transfer_amount > 0

\* C7: Liquidate fails with InstructionNotAllowed exactly when the global or
\* the custody-level allow_close_position flag is unset, RemoveCollateral
\* exactly when the global or the custody-level allow_collateral_withdrawal
\* flag is unset; the failure precedes everything else: no price is
\* resolved, no token moves, no record changes, in memory or in the accounts.
C7_PermissionGateFirst ==
    LET g == call.pre.perpetuals.permissions
        c == call.pre.custody.permissions
        denied == IF Called("Liquidate")
                  THEN ~(g.allow_close_position /\ c.allow_close_position)
                  ELSE ~(g.allow_collateral_withdrawal
                         /\ c.allow_collateral_withdrawal)
    IN call.op # "none"
         => /\ denied <=> call.err = "InstructionNotAllowed"
            /\ denied => /\ call.info.oracle_reads = 0
                         /\ ~call.info.transfer_issued
                         /\ call.mem = call.pre
                         /\ State = call.pre

\* A denied withdrawal whose amount was invalid as well and whose oracle
\* accounts were stale: the permission failure is the one reported.
C7_Witness ==
    /\ Called("RemoveCollateral")
    /\ ~call.pre.perpetuals.permissions.allow_collateral_withdrawal
    /\ call.collateral_usd = 0
    /\ call.env.custody_oracle_account.publish_time = Stale
    /\ call.err = "InstructionNotAllowed"
    /\ call.info.oracle_reads = 0

\* C8: whenever the Pool leverage check reports the position as within
\* bounds, Liquidate fails with InvalidPositionState, transfers no reward and
\* leaves the position in place; a Liquidate that succeeds was told the
\* position exceeds the threshold.
C8_LiquidateNeedsExcessLeverage ==
    Called("Liquidate") =>
      /\ (call.info.leverage_checked /\ call.env.leverage_ok)
           => /\ call.err = "InvalidPositionState"
              /\ ~call.info.transfer_issued
              /\ accounts = call.pre.accounts
              /\ position = call.pre.position
              /\ position.open
      /\ call.err = "Ok" => (call.info.leverage_checked /\ ~call.env.leverage_ok)

C8_Witness ==
    /\ Called("Liquidate")
    /\ call.info.leverage_checked
    /\ call.env.leverage_ok
    /\ call.err = "InvalidPositionState"
    /\ position.open
    /\ accounts.rewards_receiving_account = 0

\* The request of a RemoveCollateral call is out of range.
RequestOutOfRange ==
    \/ call.collateral_usd = 0
    \/ call.collateral_usd >= call.pre.position.collateral_usd

WithdrawalPermitted ==
    /\ call.pre.perpetuals.permissions.allow_collateral_withdrawal
    /\ call.pre.custody.permissions.allow_collateral_withdrawal

\* C9 as stated: every RemoveCollateral request with collateral_usd == 0 or
\* collateral_usd >= position.collateral_usd fails with InvalidArgument,
\* changing nothing.
C9_AsStated ==
    (Called("RemoveCollateral") /\ RequestOutOfRange)
      => /\ call.err = "InvalidArgument"
         /\ State = call.pre

\* C9: a RemoveCollateral request that the permission gate admits fails with
\* InvalidArgument, changing nothing and resolving no price, when
\* collateral_usd == 0 or collateral_usd >= position.collateral_usd; only
\* requests with 0 < collateral_usd < position.collateral_usd get past input
\* validation, and InvalidArgument is returned for no other request.
C9_OutOfRangeRequestRejected ==
    Called("RemoveCollateral") =>
      /\ (WithdrawalPermitted /\ RequestOutOfRange)
           => /\ call.err = "InvalidArgument"
              /\ call.info.oracle_reads = 0
              /\ ~call.info.transfer_issued
              /\ call.mem = call.pre
              /\ State = call.pre
      /\ call.info.oracle_reads > 0
           => /\ 0 < call.collateral_usd
              /\ call.collateral_usd < call.pre.position.collateral_usd
      /\ call.err = "InvalidArgument" => RequestOutOfRange

\* A permitted request for the whole posted collateral.
C9_Witness ==
    /\ Called("RemoveCollateral")
    /\ WithdrawalPermitted
    /\ call.collateral_usd = call.pre.position.collateral_usd
    /\ call.err = "InvalidArgument"
    /\ State = call.pre

\* An amount of whole USD in the program's USD fixed point.
Usd(n) == n * checked_pow10(USD_DECIMALS).v

\* The amounts of a RemoveCollateral call, from its request and the
\* collateral band: the fee at the min price, the gross amount at the max.
RequestFee ==
    get_token_amount(CallCollateralBand.v.min,
                     get_collateral_fee(call.collateral_usd,
                                        call.pre.collateral_custody).v,
                     call.pre.collateral_custody.decimals).v
RequestGross ==
    get_token_amount(CallCollateralBand.v.max, call.collateral_usd,
                     call.pre.collateral_custody.decimals).v

\* A successful RemoveCollateral decrements position.collateral_usd by the
\* request and position.collateral_amount by gross, and moves gross - fee
\* from the custody token account to the owner.
WithdrawalAmounts ==
    (Called("RemoveCollateral") /\ call.err = "Ok")
      => /\ call.info.fee_amount = RequestFee
         /\ call.info.collateral = RequestGross
         /\ position.collateral_usd
              = call.pre.position.collateral_usd - call.collateral_usd
         /\ position.collateral_amount
              = call.pre.position.collateral_amount - RequestGross
         /\ call.info.transfer_issued
         /\ call.info.transfer_to = "receiving_account"
         /\ call.info.transfer_amount = RequestGross - RequestFee
         /\ accounts.receiving_account
              = call.pre.accounts.receiving_account + (RequestGross - RequestFee)
         /\ accounts.custody_token_account
              = call.pre.accounts.custody_token_account
                  - (RequestGross - RequestFee)
         /\ accounts.rewards_receiving_account
              = call.pre.accounts.rewards_receiving_account

\* The example: 1000 USD removed from 5000 USD posted, zero fee, collateral
\* price exactly 1.00 on a 6-decimal token.
ExampleWithdrawal ==
    /\ Called("RemoveCollateral")
    /\ call.err = "Ok"
    /\ call.collateral_usd = Usd(1000)
    /\ call.pre.position.collateral_usd = Usd(5000)
    /\ call.pre.collateral_custody.fees.remove_collateral = 0
    /\ call.pre.collateral_custody.decimals = 6
    /\ CallCollateralBand = Band(1000000, 1000000, -6, FALSE)

\* C10 as stated: the amounts above, and in the example gross = net =
\* 1,000,000 base units with collateral_usd = 4000 USD afterwards.
C10_AsStated ==
    /\ WithdrawalAmounts
    /\ ExampleWithdrawal
         => /\ call.info.collateral = 1000000
            /\ call.info.transfer_amount = 1000000
            /\ position.collateral_usd = Usd(4000)

\* C10: a successful RemoveCollateral computes the fee at the collateral
\* band's min price and gross at its max price, decrements
\* position.collateral_usd by the request and position.collateral_amount by
\* gross and transfers gross - fee to the owner; in the example gross = net
\* = 1,000,000,000 base units (1000 tokens of 10^6 base units) and
\* collateral_usd = 4000 USD afterwards.
C10_WithdrawalAmounts ==
    /\ WithdrawalAmounts
    /\ ExampleWithdrawal
         => /\ call.info.collateral = 1000000000
            /\ call.info.transfer_amount = 1000000000
            /\ accounts.receiving_account
                 = call.pre.accounts.receiving_account + 1000000000
            /\ position.collateral_amount
                 = call.pre.position.collateral_amount - 1000000000
            /\ position.collateral_usd = Usd(4000)

\* The example withdrawal, made: 1000 tokens of 10^6 base units reach the
\* owner and 4000 USD stay posted.
C10_Witness ==
    /\ ExampleWithdrawal
    /\ RequestFee = 0
    /\ RequestGross = 1000000000
    /\ accounts.receiving_account
         = call.pre.accounts.receiving_account + 1000000000
    /\ position.collateral_usd = Usd(4000)

\* The liquidation reward of a Liquidate call, from the records it started
\* with: the liquidation fee rate applied to size_usd, converted to
\* collateral tokens at the max price of the collateral band.
CallReward ==
    get_token_amount(CallCollateralBand.v.max,
                     get_fee_amount(call.pre.custody.fees.liquidation,
                                    call.pre.position.size_usd).v,
                     call.pre.collateral_custody.decimals).v

\* C11: a successful Liquidate moves exactly reward tokens out of the
\* collateral custody token account, all of them to the liquidator's
\* account; the owner's receiving account is unchanged, and the residual
\* remaining = totalOut - reward is transferred to no one.
C11_OnlyRewardTransferred ==
    (Called("Liquidate") /\ call.err = "Ok")
      => /\ call.info.reward = CallReward
         /\ call.info.remaining_amount
              = call.env.close.total_amount_out - CallReward
         /\ call.info.transfer_to = "rewards_receiving_account"
         /\ call.info.transfer_amount = CallReward
         /\ accounts.custody_token_account
              = call.pre.accounts.custody_token_account - CallReward
         /\ accounts.rewards_receiving_account
              = call.pre.accounts.rewards_receiving_account + CallReward
         /\ accounts.receiving_account = call.pre.accounts.receiving_account

\* A liquidation with a positive reward and a positive residual.
C11_Witness ==
    /\ Called("Liquidate")
    /\ call.err = "Ok"
    /\ CallReward > 0
    /\ call.info.remaining_amount > 0
    /\ accounts.rewards_receiving_account
         = call.pre.accounts.rewards_receiving_account + CallReward
    /\ accounts.receiving_account = call.pre.accounts.receiving_account

CapacityRefused == Called("Liquidate") /\ call.err = "CustodyAmountLimit"
UnlockedCustody ==
    unlock_funds(call.pre.collateral_custody, call.pre.position.locked_amount)

\* C17: Liquidate releases the position's locked amount from the collateral
\* custody first and checks the capacity for the settlement amount against
\* the custody so unlocked, before any transfer.  A call whose check fails
\* returns CustodyAmountLimit: no transfer was issued, no balance moved, the
\* position is still there and the custody's locked amount is what it was
\* before the call.  A call that issued its transfer passed that check.
C17_CapacityCheckAfterUnlock ==
    Called("Liquidate") =>
      /\ call.info.capacity_checked =>
           /\ call.info.locked_at_capacity_check = UnlockedCustody.assets.locked
           /\ call.mem.collateral_custody.assets.locked
                = UnlockedCustody.assets.locked
           /\ IsOk(check_available_amount(call.info.total_amount_out,
                                          UnlockedCustody))
           /\ (call.err = "CustodyAmountLimit")
                = ~check_available_amount(call.info.total_amount_out,
                                          UnlockedCustody).v
      /\ call.info.transfer_issued =>
           call.info.capacity_checked /\ call.err # "CustodyAmountLimit"
      /\ call.err = "CustodyAmountLimit" =>
           /\ call.info.capacity_checked
           /\ ~call.info.transfer_issued
           /\ call.mem.accounts = call.pre.accounts
           /\ accounts = call.pre.accounts
           /\ position = call.pre.position
           /\ position.open
           /\ collateral_custody.assets.locked
                = call.pre.collateral_custody.assets.locked
           /\ collateral_custody = call.pre.collateral_custody

\* A refused liquidation whose custody had locked funds of the position to
\* release.
C17_Witness ==
    /\ CapacityRefused
    /\ call.pre.position.locked_amount > 0
    /\ call.info.locked_at_capacity_check
         < call.pre.collateral_custody.assets.locked
    /\ collateral_custody.assets.locked
         = call.pre.collateral_custody.assets.locked
    /\ position.open

LeverageRefused == Called("RemoveCollateral") /\ call.err = "MaxLeverage"

\* C18: RemoveCollateral checks the leverage of the position after taking
\* the requested USD off its collateral_usd and the gross token amount off
\* its collateral_amount, and before any transfer.  A call whose check fails
\* returns MaxLeverage: no transfer was issued, no balance moved, and the
\* position keeps its collateral_usd, collateral_amount and update_time.
C18_LeverageCheckedOnUpdatedPosition ==
    Called("RemoveCollateral") =>
      /\ call.info.leverage_checked =>
           /\ call.info.checked_collateral_usd
                = call.pre.position.collateral_usd - call.collateral_usd
           /\ call.info.checked_collateral_amount
                = call.pre.position.collateral_amount - call.info.collateral
           /\ call.mem.position.collateral_usd = call.info.checked_collateral_usd
           /\ call.mem.position.collateral_amount
                = call.info.checked_collateral_amount
           /\ call.mem.position.update_time = call.env.curtime
           /\ (call.err = "MaxLeverage") = ~call.env.leverage_ok
      /\ call.info.transfer_issued =>
           call.info.leverage_checked /\ call.env.leverage_ok
      /\ call.err = "MaxLeverage" =>
           /\ call.info.leverage_checked
           /\ ~call.info.transfer_issued
           /\ call.mem.accounts = call.pre.accounts
           /\ accounts = call.pre.accounts
           /\ position.collateral_usd = call.pre.position.collateral_usd
           /\ position.collateral_amount = call.pre.position.collateral_amount
           /\ position.update_time = call.pre.position.update_time

\* A withdrawal refused for its leverage: the position checked had less
\* collateral than the one the call found and left.
C18_Witness ==
    /\ LeverageRefused
    /\ call.collateral_usd > 0
    /\ call.info.checked_collateral_usd < call.pre.position.collateral_usd
    /\ call.info.checked_collateral_amount < call.pre.position.collateral_amount
    /\ call.mem.position.update_time # call.pre.position.update_time
    /\ position = call.pre.position
    /\ accounts.receiving_account = call.pre.accounts.receiving_account

\* What the protocol-fee step took out of assets.owned.
Skimmed == IF call.info.protocol_fee_paid THEN call.info.protocol_fee ELSE 0
AmountLost ==
    saturating_sub(call.info.total_amount_out, call.pre.position.collateral_amount)
AmountGained ==
    saturating_sub(call.pre.position.collateral_amount, call.info.total_amount_out)
\* The call got as far as the balance update: its reward transfer went through.
BalancesReached ==
    /\ Called("Liquidate")
    /\ call.info.transfer_issued
    /\ IsOk(transfer_tokens(call.pre.accounts, "rewards_receiving_account",
                            call.info.reward))

\* C19: a successful Liquidate leaves the collateral custody, the
\* protocol-fee skim set aside, with assets.owned = owned - (totalOut -
\* collateral_amount) when totalOut exceeds the position's collateral_amount
\* and owned + (collateral_amount - totalOut) otherwise, and with
\* assets.collateral = collateral - collateral_amount, in exact arithmetic.
\* A call that reaches the update with owned below the amount lost, with
\* owned + the amount gained above the word, or with collateral below the
\* position's collateral_amount fails and changes nothing.
C19_LiquidateBalances ==
    /\ (Called("Liquidate") /\ call.err = "Ok") =>
         /\ call.info.total_amount_out > call.pre.position.collateral_amount =>
              collateral_custody.assets.owned + Skimmed
                = call.pre.collateral_custody.assets.owned - AmountLost
         /\ call.info.total_amount_out <= call.pre.position.collateral_amount =>
              collateral_custody.assets.owned
                = call.pre.collateral_custody.assets.owned - Skimmed + AmountGained
         /\ collateral_custody.assets.collateral
              = call.pre.collateral_custody.assets.collateral
                  - call.pre.position.collateral_amount
         /\ collateral_custody.assets.owned \in 0..U64_MAX
         /\ collateral_custody.assets.collateral \in 0..U64_MAX
    /\ (BalancesReached
          /\ \/ call.pre.collateral_custody.assets.owned < AmountLost
             \/ AmountGained > U64_MAX - call.pre.collateral_custody.assets.owned
             \/ call.pre.collateral_custody.assets.collateral
                  < call.pre.position.collateral_amount) =>
         /\ call.err = "MathOverflow"
         /\ collateral_custody = call.pre.collateral_custody
         /\ accounts = call.pre.accounts
         /\ position = call.pre.position

\* A liquidation paying out more than the position's collateral from a
\* custody that owns enough.
C19_Witness ==
    /\ Called("Liquidate") /\ call.err = "Ok"
    /\ AmountLost > 0
    /\ collateral_custody.assets.owned + Skimmed
         = call.pre.collateral_custody.assets.owned - AmountLost
    /\ collateral_custody.assets.collateral
         < call.pre.collateral_custody.assets.collateral

\* Helper: a liquidation that fails at the balance update.
OwnedUnderflowReached ==
    ~(BalancesReached /\ call.pre.collateral_custody.assets.owned < AmountLost)

\* The collateral custody as the protocol-fee step of Liquidate finds it:
\* unlocked, with the owned and collateral balances updated.
SkimReached ==
    /\ BalancesReached
    /\ call.pre.collateral_custody.assets.owned >= AmountLost
    /\ AmountGained <= U64_MAX - call.pre.collateral_custody.assets.owned
    /\ call.pre.collateral_custody.assets.collateral
         >= call.pre.position.collateral_amount
SkimCustody ==
    [UnlockedCustody EXCEPT
       !.assets.owned = @ - AmountLost + AmountGained,
       !.assets.collateral = @ - call.pre.position.collateral_amount]
ProtocolFee ==
    get_fee_amount(call.pre.custody.fees.protocol_share, call.info.fee_amount)
SkimCapacity == check_available_amount(ProtocolFee.v, SkimCustody)

\* The protocol-fee step of RemoveCollateral is reached once the transfer
\* to the owner and the collateral decrement went through.
WithdrawalSkimReached ==
    /\ Called("RemoveCollateral")
    /\ call.info.transfer_issued
    /\ IsOk(transfer_tokens(call.pre.accounts, "receiving_account",
                            call.info.transfer_amount))
    /\ call.pre.collateral_custody.assets.collateral >= call.info.collateral

\* C20: in Liquidate, when the collateral custody has available capacity
\* for the protocol fee, protocol_fees grows by the fee and owned shrinks by
\* it; when it has not, both stay and the liquidation still succeeds.  In
\* RemoveCollateral protocol_fees always grows by the fee, whatever the
\* capacity, and the call fails only when that addition overflows.
C20_ProtocolFeeSkim ==
    /\ (SkimReached /\ IsOk(ProtocolFee) /\ IsOk(SkimCapacity)) =>
         IF SkimCapacity.v
         THEN /\ call.info.protocol_fee_paid
              /\ call.mem.collateral_custody.assets.protocol_fees
                   = call.pre.collateral_custody.assets.protocol_fees
                       + ProtocolFee.v
              /\ call.mem.collateral_custody.assets.owned
                   = SkimCustody.assets.owned - ProtocolFee.v
         ELSE /\ ~call.info.protocol_fee_paid
              /\ call.mem.collateral_custody.assets.protocol_fees
                   = call.pre.collateral_custody.assets.protocol_fees
              /\ call.mem.collateral_custody.assets.owned
                   = SkimCustody.assets.owned
              /\ call.err = "Ok"
    /\ (WithdrawalSkimReached /\ IsOk(ProtocolFee)) =>
         IF ProtocolFee.v
              <= U64_MAX - call.pre.collateral_custody.assets.protocol_fees
         THEN /\ call.err = "Ok"
              /\ collateral_custody.assets.protocol_fees
                   = call.pre.collateral_custody.assets.protocol_fees
                       + ProtocolFee.v
         ELSE call.err = "MathOverflow"

\* Helpers: the parts of C20 taken one at a time.
LiquidateSkimSkippedSucceeds ==
    (SkimReached /\ IsOk(ProtocolFee) /\ IsOk(SkimCapacity) /\ ~SkimCapacity.v) =>
       /\ ~call.info.protocol_fee_paid
       /\ call.err = "Ok"
       /\ collateral_custody.assets.protocol_fees
            = call.pre.collateral_custody.assets.protocol_fees
       /\ collateral_custody.assets.owned = SkimCustody.assets.owned
LiquidateSkimPaidWhenSuccessful ==
    (SkimReached /\ IsOk(ProtocolFee) /\ IsOk(SkimCapacity) /\ SkimCapacity.v
       /\ call.err = "Ok") =>
       /\ call.info.protocol_fee_paid
       /\ collateral_custody.assets.protocol_fees
            = call.pre.collateral_custody.assets.protocol_fees + ProtocolFee.v
       /\ collateral_custody.assets.owned
            = SkimCustody.assets.owned - ProtocolFee.v
WithdrawalSkimUnconditional ==
    (WithdrawalSkimReached /\ IsOk(ProtocolFee)) =>
       IF ProtocolFee.v
            <= U64_MAX - call.pre.collateral_custody.assets.protocol_fees
       THEN /\ call.err = "Ok"
            /\ collateral_custody.assets.protocol_fees
                 = call.pre.collateral_custody.assets.protocol_fees
                     + ProtocolFee.v
       ELSE call.err = "MathOverflow"
\* A liquidation stopped by its protocol-fee step although the custody had
\* the capacity: owned is below the fee.
LiquidateSkimNeverFails ==
    (SkimReached /\ IsOk(ProtocolFee) /\ IsOk(SkimCapacity) /\ SkimCapacity.v
       /\ ProtocolFee.v
            <= U64_MAX - call.pre.collateral_custody.assets.protocol_fees)
      => call.err = "Ok"

\* The record whose statistics Liquidate updates.
StatsRecord(st) ==
    IF st.position.side = "Long" /\ ~st.custody.is_virtual
    THEN st.collateral_custody ELSE st.custody
PositionSize ==
    get_token_amount(OraclePrice(call.pre.position.price, -PRICE_DECIMALS),
                     call.pre.position.size_usd, call.pre.custody.decimals)
\* The call got through its protocol-fee step and computed what the
\* statistics need: the size, and the checked liquidation volume.
StatsReached ==
    /\ SkimReached
    /\ IsOk(ProtocolFee) /\ IsOk(SkimCapacity)
    /\ SkimCapacity.v =>
         /\ ProtocolFee.v
              <= U64_MAX - call.pre.collateral_custody.assets.protocol_fees
         /\ SkimCustody.assets.owned >= ProtocolFee.v
    /\ IsOk(PositionSize)
    /\ call.pre.position.size_usd
         <= U64_MAX - StatsRecord(call.pre).volume_stats.liquidation_usd

\* C21: in a Liquidate that reaches its statistics, the open-interest
\* counter of the position's side falls by the position's token size at its
\* entry price and stops at zero, the other side's counter stays, and
\* profit_usd, loss_usd and the collected liquidation fee grow modulo the
\* word; none of these updates fails the call.
C21_LiquidateStatistics ==
    (Called("Liquidate") /\ StatsReached) =>
      LET before == StatsRecord(call.pre).trade_stats
          after == StatsRecord(call.mem).trade_stats
          long == call.pre.position.side = "Long"
      IN /\ call.err = "Ok"
         /\ after.oi_long = IF long THEN saturating_sub(before.oi_long, PositionSize.v)
                            ELSE before.oi_long
         /\ after.oi_short = IF long THEN before.oi_short
                             ELSE saturating_sub(before.oi_short, PositionSize.v)
         /\ after.oi_long >= 0 /\ after.oi_short >= 0
         /\ after.profit_usd = wrapping_add(before.profit_usd, call.env.close.profit_usd)
         /\ after.loss_usd = wrapping_add(before.loss_usd, call.env.close.loss_usd)
         /\ after.profit_usd \in 0..U64_MAX /\ after.loss_usd \in 0..U64_MAX
         /\ call.mem.collateral_custody.collected_fees.liquidation_usd
              = wrapping_add(call.pre.collateral_custody.collected_fees.liquidation_usd,
                             call.info.fee_amount_usd)
         /\ (~SameAccount \/ (long /\ ~call.pre.custody.is_virtual)) =>
              /\ custody.trade_stats = StatsRecord(call.mem).trade_stats
                   \/ collateral_custody.trade_stats = StatsRecord(call.mem).trade_stats
              /\ collateral_custody.collected_fees
                   = call.mem.collateral_custody.collected_fees

\* A liquidation whose loss counter wrapped around and whose open interest
\* stopped at zero.
C21_Witness ==
    /\ Called("Liquidate") /\ call.err = "Ok"
    /\ call.env.close.loss_usd > 0
    /\ StatsRecord(call.mem).trade_stats.loss_usd
         < StatsRecord(call.pre).trade_stats.loss_usd
    /\ PositionSize.v > StatsRecord(call.pre).trade_stats.oi_short
    /\ StatsRecord(call.mem).trade_stats.oi_short = 0

\* C22: withdrawals never empty a position.  After any run of
\* RemoveCollateral calls on a position that began with collateral_usd > 0,
\* collateral_usd is still above zero, the USD requested by the successful
\* calls add up to less than the collateral_usd the run began with, and their
\* gross token amounts add up to no more than the collateral_amount it began
\* with; what was taken is what the position lost.  A call whose gross
\* amount exceeds the position's collateral_amount fails with
\* InsufficientFunds.
C22_WithdrawalsNeverEmpty ==
    call.withdrawn.first.collateral_usd > 0 =>
      /\ position.collateral_usd > 0
      /\ call.withdrawn.usd < call.withdrawn.first.collateral_usd
      /\ call.withdrawn.gross <= call.withdrawn.first.collateral_amount
      /\ position.collateral_usd
           = call.withdrawn.first.collateral_usd - call.withdrawn.usd
      /\ position.collateral_amount
           = call.withdrawn.first.collateral_amount - call.withdrawn.gross
      /\ (Called("RemoveCollateral")
            /\ call.info.collateral > call.pre.position.collateral_amount
            /\ call.info.fee_amount <= call.info.collateral)
           => call.err = "InsufficientFunds"
      /\ (Called("RemoveCollateral") /\ call.err = "Ok") =>
           /\ call.collateral_usd > 0
           /\ call.collateral_usd < call.pre.position.collateral_usd
           /\ call.info.collateral <= call.pre.position.collateral_amount

\* Two withdrawals went through and a third, asking for all that is left,
\* was turned down.
C22_Witness ==
    /\ Called("RemoveCollateral")
    /\ call.err = "InvalidArgument"
    /\ ops = 2
    /\ call.withdrawn.usd > 0
    /\ call.withdrawn.gross > 0
    /\ call.collateral_usd = position.collateral_usd
    /\ position.collateral_usd
         = call.withdrawn.first.collateral_usd - call.withdrawn.usd

\* The collateral a position has posted with its collateral custody.
Posted(p) == IF p.open THEN p.collateral_amount ELSE 0

\* C23: the collateral custody's assets.collateral stays the sum of the
\* collateral_amount of its open positions.  Through any run of successful
\* RemoveCollateral and Liquidate calls it equals what the other positions
\* had posted plus what this position has posted: a withdrawal takes its
\* gross amount off both the counter and the position, a liquidation takes
\* the position's collateral_amount off the counter and removes the position.
C23_PostedCollateralInSync ==
    /\ collateral_custody.assets.collateral
         = call.withdrawn.posted_by_others + Posted(position)
    /\ SameAccount =>
         custody.assets.collateral = collateral_custody.assets.collateral
    /\ (Called("RemoveCollateral") /\ call.err = "Ok") =>
         /\ collateral_custody.assets.collateral
              = call.pre.collateral_custody.assets.collateral - call.info.collateral
         /\ position.collateral_amount
              = call.pre.position.collateral_amount - call.info.collateral
         /\ position.open
    /\ (Called("Liquidate") /\ call.err = "Ok") =>
         /\ collateral_custody.assets.collateral
              = call.pre.collateral_custody.assets.collateral
                  - call.pre.position.collateral_amount
         /\ ~position.open

\* A position liquidated after a withdrawal, in a custody that other
\* positions have posted collateral with.
C23_Witness ==
    /\ Called("Liquidate") /\ call.err = "Ok"
    /\ ~position.open
    /\ call.withdrawn.gross > 0
    /\ call.withdrawn.posted_by_others > 0
    /\ collateral_custody.assets.collateral = call.withdrawn.posted_by_others

\* A Liquidate call that got as far as its reward: permitted, both bands
\* resolved, the position beyond the liquidation threshold, and the fee and
\* the reward converted without overflow.
RewardUsd ==
    get_fee_amount(call.pre.custody.fees.liquidation, call.pre.position.size_usd)
CallFeeUsd ==
    get_asset_amount_usd(CallTokenBand.v.max, call.env.close.fee_amount,
                         call.pre.custody.decimals)
CallFee ==
    IF call.pre.position.side = "Short" \/ call.pre.custody.is_virtual
    THEN get_token_amount(CallCollateralBand.v.min, CallFeeUsd.v,
                          call.pre.collateral_custody.decimals)
    ELSE Ok(call.env.close.fee_amount)
RewardReached ==
    /\ Called("Liquidate")
    /\ call.pre.perpetuals.permissions.allow_close_position
    /\ call.pre.custody.permissions.allow_close_position
    /\ BandsResolved
    /\ ~call.env.leverage_ok
    /\ IsOk(CallFeeUsd) /\ IsOk(CallFee)
    /\ IsOk(RewardUsd)
    /\ IsOk(get_token_amount(CallCollateralBand.v.max, RewardUsd.v,
                             call.pre.collateral_custody.decimals))

\* C24: the liquidator's reward never exceeds the settlement amount.  Every
\* successful Liquidate has reward <= totalOut.  A Liquidate whose reward,
\* computed from the liquidation fee rate and size_usd, exceeds totalOut
\* fails with an arithmetic error before any transfer and leaves the
\* position open, although the position is beyond the liquidation
\* threshold, the permissions are set and the prices resolved.
C24_RewardWithinTotalOut ==
    /\ (Called("Liquidate") /\ call.err = "Ok") =>
         /\ call.info.reward <= call.info.total_amount_out
         /\ call.info.transfer_amount <= call.env.close.total_amount_out
         /\ call.info.remaining_amount
              = call.info.total_amount_out - call.info.reward
    /\ (RewardReached /\ CallReward > call.env.close.total_amount_out) =>
         /\ call.err = "MathOverflow"
         /\ ~call.info.transfer_issued
         /\ ~call.info.capacity_checked
         /\ accounts = call.pre.accounts
         /\ position = call.pre.position
         /\ position.open
    /\ (RewardReached /\ CallReward <= call.env.close.total_amount_out) =>
         call.info.capacity_checked

\* A liquidation of a position with nothing left to settle: the fee rate is
\* not zero, the feeds are fresh, and the call fails.
C24_Witness ==
    /\ RewardReached
    /\ call.env.close.total_amount_out = 0
    /\ call.pre.custody.fees.liquidation > 0
    /\ CallReward > 0
    /\ call.env.custody_oracle_account.publish_time = Fresh
    /\ call.env.collateral_custody_oracle_account.publish_time = Fresh
    /\ ~CallTokenBand.v.close_only
    /\ call.err = "MathOverflow"
    /\ position.open
    /\ accounts.rewards_receiving_account = 0

\* ---------------------------------------------- properties: the queries
\* The bands the two oracle accounts of the last query resolve to.
QueryTokenBand ==
    new_from_oracle(query.env.custody_oracle_account, custody.oracle,
                    query.env.curtime, custody.is_stable)
QueryCollateralBand ==
    new_from_oracle(query.env.collateral_custody_oracle_account,
                    collateral_custody.oracle,
                    query.env.curtime, collateral_custody.is_stable)
ExitQueried ==
    /\ query.op = "GetExitPriceAndFee"
    /\ IsOk(QueryTokenBand)
    /\ IsOk(QueryCollateralBand)

\* The Pool's base exit fee of the last query valued in USD (at the max price
\* of the asset band), and that value in collateral tokens at a given price.
ExitFeeUsd ==
    get_asset_amount_usd(QueryTokenBand.v.max, query.pool.exit_fee,
                         custody.decimals).v
ExitFeeAt(collateral_price) ==
    get_token_amount(collateral_price, ExitFeeUsd, collateral_custody.decimals).v
ExitPrice ==
    get_exit_price(QueryTokenBand.v.min, QueryTokenBand.v.max, position.side,
                   custody).v
FeeInCollateralTerms == position.side = "Short" \/ custody.is_virtual

\* C12 as stated: for a short or a virtual custody the returned fee is the
\* base exit fee, valued in USD, converted at the max price of the collateral
\* band; otherwise it is the base exit fee unconverted; the returned price is
\* the exit-price policy applied to the asset band and the side.
C12_AsStated ==
    ExitQueried
      => query.result
           = Ok([price |-> ExitPrice,
                 fee |-> IF FeeInCollateralTerms
                         THEN ExitFeeAt(QueryCollateralBand.v.max)
                         ELSE query.pool.exit_fee])

\* C12: for a short or a virtual custody the returned fee is the base exit
\* fee, valued in USD, converted to collateral tokens at the min price of the
\* collateral band; for a long on a custody that is not virtual it is the
\* base exit fee unconverted; the returned price is the exit-price policy
\* applied to the asset band and the side.
C12_ExitFeeAtMinPrice ==
    ExitQueried
      => query.result
           = Ok([price |-> ExitPrice,
                 fee |-> IF FeeInCollateralTerms
                         THEN ExitFeeAt(QueryCollateralBand.v.min)
                         ELSE query.pool.exit_fee])

\* A short whose collateral band has two ends that give different fees.
C12_Witness ==
    /\ ExitQueried
    /\ position.side = "Short"
    /\ ExitFeeAt(QueryCollateralBand.v.min) > ExitFeeAt(QueryCollateralBand.v.max)
    /\ query.result.v.fee = ExitFeeAt(QueryCollateralBand.v.min)

LiquidityQueried == query.op = "GetRemoveLiquidityAmountAndFee"

\* The largest lpAmountIn a query is made with.
LpAmountMax == CHOOSE n \in LpAmountsIn : \A m \in LpAmountsIn : m <= n

\* removeUsd = floor(AUM_min * lpAmountIn / totalLpSupply) of the last query
\* (an error when the supply is 0 or the quotient leaves 64 bits), and gross,
\* that amount in asset tokens at the max price of the asset band.
RemoveUsd ==
    mul_div_as_u64(query.pool.pool_amount_usd, query.lp_amount_in,
                   query.pool.lp_supply)
RemoveGross ==
    get_token_amount(QueryTokenBand.v.max, RemoveUsd.v, custody.decimals)

\* C13: the liquidity-redemption query fails with InvalidArgument when
\* lpAmountIn == 0; otherwise (the asset band resolving) it fails when
\* totalLpSupply == 0, when removeUsd does not fit 64 bits or when
\* fee > gross, and else returns (amount, fee) with the Pool's redemption fee
\* and amount + fee = gross.
C13_RedemptionAmountAndFee ==
    LiquidityQueried =>
      /\ query.lp_amount_in = 0 => query.result = Err("InvalidArgument")
      /\ (query.lp_amount_in # 0 /\ IsOk(QueryTokenBand)) =>
           /\ query.pool.lp_supply = 0 => ~IsOk(query.result)
           /\ ~IsOk(RemoveUsd) => ~IsOk(query.result)
           /\ (query.pool.lp_supply # 0
                 /\ query.pool.pool_amount_usd <= U64_MAX \div LpAmountMax)
                => RemoveUsd
                     = Ok((query.pool.pool_amount_usd * query.lp_amount_in)
                            \div query.pool.lp_supply)
           /\ (IsOk(RemoveUsd) /\ IsOk(RemoveGross)) =>
                IF query.pool.remove_liquidity_fee > RemoveGross.v
                THEN ~IsOk(query.result)
                ELSE /\ IsOk(query.result)
                     /\ query.result.v.fee = query.pool.remove_liquidity_fee
                     /\ query.result.v.amount + query.result.v.fee = RemoveGross.v

\* A redemption with a fee, on an asset band whose two ends differ.
C13_Witness ==
    /\ LiquidityQueried
    /\ IsOk(query.result)
    /\ QueryTokenBand.v.min.price < QueryTokenBand.v.max.price
    /\ query.result.v.fee > 0
    /\ query.result.v.amount > 0
    /\ query.result.v.amount + query.result.v.fee = RemoveGross.v

\* Both custody roles of the last call were played by one instrument.
CallSameInstrument == call.pre.custody.mint = call.pre.collateral_custody.mint

SyncedWhenLongNotVirtual ==
    (/\ call.op # "none" /\ call.err = "Ok" /\ CallSameInstrument
     /\ call.pre.position.side = "Long"
     /\ ~call.pre.custody.is_virtual)
      => /\ call.mem.custody = call.mem.collateral_custody
         /\ call.mem.custody # call.pre.custody
         /\ custody = collateral_custody

\* ------------------------------------- properties: fixed-point values
Scaled == calc.op = "scale_to_exponent"
ScaleDelta == calc.target_exponent - calc.self.exponent

MulDivided == calc.op = "mul_then_div"
Normalized(p) == p.price <= ORACLE_MAX_PRICE

\* The distance between the result and a, in units of the result's last
\* place, rounded down; the result's exponent is the smaller one whenever
\* fewer than nine digits were discarded.
UnitsFromA ==
    LET r == calc.result.v
        d == calc.a.exponent - r.exponent
    IN IF d >= 0
       THEN LET a_units == ShiftUp(calc.a.price, d)
            IN IF IsOk(a_units) THEN AbsDiff(a_units.v, r.price) ELSE U64_MAX
       ELSE LET r_units == ShiftUp(r.price, -d)
            IN IF IsOk(r_units)
               THEN ShiftDown(AbsDiff(r_units.v, calc.a.price), -d)
               ELSE U64_MAX

\* C16: for every a and every normalized b with a non-zero mantissa whose
\* product does not overflow, dividing the product by b succeeds and gives
\* a value at most one unit of the result's last place away from a.
C16_MulDivWithinOneUnit ==
    (MulDivided /\ Normalized(calc.b) /\ calc.b.price # 0 /\ IsOk(calc.product))
      => /\ IsOk(calc.result)
         /\ UnitsFromA <= 1

\* Helpers: the division succeeds, and is exact when the product needs no
\* normalization.
MulDivSucceeds ==
    (MulDivided /\ calc.b.price # 0 /\ IsOk(calc.product)) => IsOk(calc.result)
MulDivExactWhenProductNormalized ==
    (MulDivided /\ Normalized(calc.b) /\ calc.b.price # 0 /\ IsOk(calc.product)
       /\ Normalized(calc.product.v))
      => IsOk(calc.result) /\ UnitsFromA = 0
====
